---------------------------- MODULE Spec2Model ----------------------------
(***************************************************************************)
(* A model of the Choir library (Jigsaw-Code/choir): the server-side       *)
(* k-anonymity Filter, the client-side send pipeline, the wire encoding    *)
(* of a Report as a DNS name, and the salt handling of the hash binner.    *)
(*                                                                         *)
(* Strings are sequences of one-character strings, so that formatting and  *)
(* parsing are computed character by character as the Go code does.        *)
(***************************************************************************)
EXTENDS Integers, Sequences, FiniteSets, TLC

VARIABLES
    \* ---- server.go: Filter ----
    threshold,   \* Filter's threshold argument
    pending,     \* map[Key]*dam of the Filter goroutine
    fpc,         \* position of the Filter goroutine
    inClosed,    \* whether the producer has closed `in`
    released,    \* the part of `released` the loop at server.go:144 has yet to send
    consumed,    \* history: the reports received from `in`, in order
    emitted,     \* history: the reports the consumer received from `out`, in order
    \* ---- client.go: the send pipeline of NewReporter ----
    clock,       \* the current UTC day, as today() returns it
    cache,       \* onceADayReportSender.cache: date, the map, and whether it is nil
    count,       \* burstReportSender.count
    bpending,    \* burstReportSender.pending
    timers,      \* drains scheduled by time.AfterFunc that have not started
    inflight,    \* drains past their unlock, inside sender.Send(r)
    sent,        \* history: the completed calls of the embedder's Send
    cpc,         \* position of each caller of Reporter.Report
    creport,     \* the report each caller built
    cresult,     \* what each caller's last Report returned
    cadd,        \* history: what cache.Add returned to each caller's last Send
    ncalls,      \* number of Report calls made
    burstNo,     \* history: number of times count went from 0 to 1
    burstLog,    \* history: the reports burstReportSender.Send received
    \* ---- client.go: name, server.go: Receiver.ParseReport ----
    npc,         \* "input", then "named" after name(), then "parsed"
    nreport,     \* the Report given to name()
    nsuffix,     \* the suffix given to name() and configured in the Receiver
    nname,       \* what name(nreport, nsuffix) returned
    nparsed,     \* what ParseReport(nname) returned
    \* ---- client.go: newHashBinner and the salt store ----
    sfile,       \* the bytes of the salt store
    sbefore,     \* history: the bytes of the salt store before the last construction
    slog,        \* history: what each newHashBinner call did and returned
    \* ---- client.go: hashBinner.bin ----
    bbinners,    \* the two hashBinner values: salt and bins
    blog,        \* history: the calls of build made on them and their bin labels
    \* ---- part_000: NewValue ----
    vpc,         \* "input", then "done" after NewValue(vinput)
    vinput,      \* the string given to NewValue
    vvalue,      \* the Value it returned
    verr,        \* the error it returned
    \* ---- client.go: burstReportSender, one burst with its random draws ----
    rpc,         \* "burst", then "draining" inside drain, then "sent"
    rcount,      \* burstReportSender.count
    rpending,    \* burstReportSender.pending: the arrival number of a report, 0 for Report{}
    rtimer,      \* whether time.AfterFunc has scheduled the drain
    rdraws,      \* history: what rand.Int returned to each Send, -1 for an error
    rsent,       \* history: the report drain captured, and what the sender returned
    \* ---- client.go: one cache value and the calls of Add made on it ----
    kcache,      \* the cache: date, the map, and whether it is nil
    kpc,         \* "ready", or "panic" once Add has written to a nil map
    klog,        \* history: each call of Add, the cache around it and its results
    \* ---- client.go: burstReportSender with its timers, over time ----
    lnow,        \* the time
    lburst,      \* burstReportSender.burst
    lcount,      \* burstReportSender.count
    lpending,    \* burstReportSender.pending: the arrival number of a report, 0 for Report{}
    ltimers,     \* the drains time.AfterFunc has scheduled and not yet started
    ldrains,     \* the drains past their unlock, about to call sender.Send(r)
    llog,        \* history: each Send, when it ran, its draw and what it returned
    ldown,       \* history: each call of the downstream sender
    \* ---- server.go: a Receiver and the names it is given ----
    ppc,         \* "input", then "parsed" after ParseReport(pname)
    preceiver,   \* the Receiver: Suffix and Values
    pname,       \* the name given to ParseReport
    pparsed,     \* what ParseReport returned
    \* ---- client.go: reportBuilder.build on one domain ----
    gpc,         \* "input", then "built" after build(gargs.domain, gargs.values)
    gargs,       \* the arguments of build
    gday,        \* history: what today() returned to build
    gresult,     \* what build returned
    \* ---- client.go: NewReporter on one configuration ----
    opc,         \* "input", then "done" after NewReporter
    oargs,       \* the arguments of NewReporter (file: the bytes the stream holds), and
                 \* what the stream and rand.Read will do
    ofile,       \* the bytes of the salt stream
    oresult      \* what NewReporter returned, and whether it called Read on the stream

filterVars == <<threshold, pending, fpc, inClosed, released, consumed, emitted>>

clientVars == <<clock, cache, count, bpending, timers, inflight, sent,
                cpc, creport, cresult, cadd, ncalls, burstNo, burstLog>>

nameVars == <<npc, nreport, nsuffix, nname, nparsed>>

saltVars == <<sfile, sbefore, slog>>

binVars == <<bbinners, blog>>

valueVars == <<vpc, vinput, vvalue, verr>>

reservoirVars == <<rpc, rcount, rpending, rtimer, rdraws, rsent>>

cacheVars == <<kcache, kpc, klog>>

timedVars == <<lnow, lburst, lcount, lpending, ltimers, ldrains, llog, ldown>>

parseVars == <<ppc, preceiver, pname, pparsed>>

buildVars == <<gpc, gargs, gday, gresult>>

configVars == <<opc, oargs, ofile, oresult>>

vars == <<filterVars, clientVars, nameVars, saltVars, binVars, valueVars, reservoirVars, cacheVars, timedVars, parseVars, buildVars, configVars>>

\* What each part leaves alone.
notFilterVars == <<clientVars, nameVars, saltVars, binVars, valueVars, reservoirVars, cacheVars, timedVars, parseVars, buildVars, configVars>>
notClientVars == <<filterVars, nameVars, saltVars, binVars, valueVars, reservoirVars, cacheVars, timedVars, parseVars, buildVars, configVars>>
notNameVars == <<filterVars, clientVars, saltVars, binVars, valueVars, reservoirVars, cacheVars, timedVars, parseVars, buildVars, configVars>>
notSaltVars == <<filterVars, clientVars, nameVars, binVars, valueVars, reservoirVars, cacheVars, timedVars, parseVars, buildVars, configVars>>
notBinVars == <<filterVars, clientVars, nameVars, saltVars, valueVars, reservoirVars, cacheVars, timedVars, parseVars, buildVars, configVars>>
notValueVars == <<filterVars, clientVars, nameVars, saltVars, binVars, reservoirVars, cacheVars, timedVars, parseVars, buildVars, configVars>>
notReservoirVars == <<filterVars, clientVars, nameVars, saltVars, binVars, valueVars, cacheVars, timedVars, parseVars, buildVars, configVars>>
notCacheVars == <<filterVars, clientVars, nameVars, saltVars, binVars, valueVars, reservoirVars, timedVars, parseVars, buildVars, configVars>>
notTimedVars == <<filterVars, clientVars, nameVars, saltVars, binVars, valueVars, reservoirVars, cacheVars, parseVars, buildVars, configVars>>
notParseVars == <<filterVars, clientVars, nameVars, saltVars, binVars, valueVars, reservoirVars, cacheVars, timedVars, buildVars, configVars>>
notBuildVars == <<filterVars, clientVars, nameVars, saltVars, binVars, valueVars, reservoirVars, cacheVars, timedVars, parseVars, configVars>>
notConfigVars == <<filterVars, clientVars, nameVars, saltVars, binVars, valueVars, reservoirVars, cacheVars, timedVars, parseVars, buildVars>>

-----------------------------------------------------------------------------
(* Bounds of the model.                                                    *)

MaxThreshold == 3
MaxInputs == 4
MaxCalls == 2
MaxDay == 2
MaxConstructions == 2
MaxFileLen == 18
MaxBinCalls == 2
MaxBurst == 4
MaxAdds == 3
MaxDate == 2
MaxSends == 3
MaxTime == 3
MaxDomainLen == 3
MaxDayCalls == 3

-----------------------------------------------------------------------------
(* server.go: dam and Filter                                               *)

\* The keys the metrics server sees; Filter only compares them for equality.
FilterKeys == {"k1", "k2"}

\* The bin labels of incoming reports; "" is a report without a bin.
FilterBins == {"", "a", "b", "c"}

\* The states of an entry of `pending`: no entry, a live dam, or the nil
\* pointer that stands for a burst dam.
NoDam == [st |-> "none", bins |-> {}, observations |-> <<>>]
NilDam == [st |-> "nil", bins |-> {}, observations |-> <<>>]
NewDam == [st |-> "dam", bins |-> {}, observations |-> <<>>]

\* The Report a burst dam builds for observation v: Key and Values only, so
\* bin is the zero value.
BurstReport(key, v) == [Key |-> key, Values |-> v, bin |-> ""]

\* dam.add with the threshold compared against the number of observations
\* instead of the number of distinct bins.
damAdd_countObservations(d, report, thr) ==
    IF d.st = "nil"
    THEN [panic |-> FALSE, d |-> d, isNil |-> FALSE, out |-> <<report>>]
    ELSE IF report.bin = ""
    THEN [panic |-> TRUE, d |-> d, isNil |-> TRUE, out |-> <<>>]
    ELSE LET bins == d.bins \cup {report.bin}
             obs == Append(d.observations, report.Values)
         IN  IF Len(obs) >= thr
             THEN [panic |-> FALSE,
                   d |-> [st |-> "dam", bins |-> bins, observations |-> <<>>],
                   isNil |-> FALSE,
                   out |-> [i \in 1..Len(obs) |-> BurstReport(report.Key, obs[i])]]
             ELSE [panic |-> FALSE,
                   d |-> [st |-> "dam", bins |-> bins, observations |-> obs],
                   isNil |-> TRUE, out |-> <<>>]

\* dam.add returning nothing for a dam that has already burst.
damAdd_dropAfterBurst(d, report, thr) ==
    IF d.st = "nil"
    THEN [panic |-> FALSE, d |-> d, isNil |-> TRUE, out |-> <<>>]
    ELSE IF report.bin = ""
    THEN [panic |-> TRUE, d |-> d, isNil |-> TRUE, out |-> <<>>]
    ELSE LET bins == d.bins \cup {report.bin}
             obs == Append(d.observations, report.Values)
         IN  IF Cardinality(bins) >= thr
             THEN [panic |-> FALSE,
                   d |-> [st |-> "dam", bins |-> bins, observations |-> <<>>],
                   isNil |-> FALSE,
                   out |-> [i \in 1..Len(obs) |-> BurstReport(report.Key, obs[i])]]
             ELSE [panic |-> FALSE,
                   d |-> [st |-> "dam", bins |-> bins, observations |-> obs],
                   isNil |-> TRUE, out |-> <<>>]

\* dam.add releasing the observations of a burst last first.
damAdd_reversed(d, report, thr) ==
    IF d.st = "nil"
    THEN [panic |-> FALSE, d |-> d, isNil |-> FALSE, out |-> <<report>>]
    ELSE IF report.bin = ""
    THEN [panic |-> TRUE, d |-> d, isNil |-> TRUE, out |-> <<>>]
    ELSE LET bins == d.bins \cup {report.bin}
             obs == Append(d.observations, report.Values)
         IN  IF Cardinality(bins) >= thr
             THEN [panic |-> FALSE,
                   d |-> [st |-> "dam", bins |-> bins, observations |-> <<>>],
                   isNil |-> FALSE,
                   out |-> [i \in 1..Len(obs) |->
                               BurstReport(report.Key, obs[Len(obs) + 1 - i])]]
             ELSE [panic |-> FALSE,
                   d |-> [st |-> "dam", bins |-> bins, observations |-> obs],
                   isNil |-> TRUE, out |-> <<>>]

\* dam.add: the new dam, the returned slice, and whether it panicked.
\* released = <<>> with isNil stands for the nil slice.
damAdd(d, report, thr) ==
    IF d.st = "nil"
    THEN [panic |-> FALSE, d |-> d, isNil |-> FALSE, out |-> <<report>>]
    ELSE IF report.bin = ""
    THEN [panic |-> TRUE, d |-> d, isNil |-> TRUE, out |-> <<>>]
    ELSE LET bins == d.bins \cup {report.bin}
             obs == Append(d.observations, report.Values)
         IN  IF Cardinality(bins) >= thr
             THEN [panic |-> FALSE,
                   d |-> [st |-> "dam", bins |-> bins, observations |-> <<>>],
                   isNil |-> FALSE,
                   out |-> [i \in 1..Len(obs) |-> BurstReport(report.Key, obs[i])]]
             ELSE [panic |-> FALSE,
                   d |-> [st |-> "dam", bins |-> bins, observations |-> obs],
                   isNil |-> TRUE, out |-> <<>>]

\* One iteration of `for report := range in` up to the first `out <- r`:
\* the lookup, the creation of the dam, add, and the replacement by nil.
FilterStep(report) ==
    LET d0 == pending[report.Key]
        d == IF d0.st = "none" THEN NewDam ELSE d0
        res == damAdd(d, report, threshold)
    IN  /\ consumed' = Append(consumed, report)
        /\ IF res.panic
           THEN /\ fpc' = "panic"
                /\ pending' = [pending EXCEPT ![report.Key] = d]
                /\ released' = <<>>
           ELSE IF res.isNil
           THEN /\ fpc' = "recv"
                /\ pending' = [pending EXCEPT ![report.Key] = res.d]
                /\ released' = <<>>
           ELSE /\ fpc' = "send"
                /\ pending' = [pending EXCEPT ![report.Key] =
                                  IF d.st # "nil" THEN NilDam ELSE res.d]
                /\ released' = res.out

\* The producer sends the next report on `in`; its single value is its
\* arrival number, as in TestFilter.
FilterRecv ==
    /\ fpc = "recv"
    /\ ~inClosed
    /\ Len(consumed) < MaxInputs
    /\ \E k \in FilterKeys, b \in FilterBins :
          FilterStep([Key |-> k, Values |-> <<Len(consumed) + 1>>, bin |-> b])
    /\ UNCHANGED <<threshold, inClosed, emitted, notFilterVars>>

\* The consumer receives the report the goroutine is blocked sending.
FilterEmit ==
    /\ fpc = "send"
    /\ emitted' = Append(emitted, Head(released))
    /\ released' = Tail(released)
    /\ fpc' = IF Len(released) = 1 THEN "recv" ELSE "send"
    /\ UNCHANGED <<threshold, pending, inClosed, consumed, notFilterVars>>

\* The producer closes `in`, whatever the goroutine is doing; a goroutine
\* that panicked has ended the program.
CloseIn ==
    /\ ~inClosed
    /\ fpc # "panic"
    /\ inClosed' = TRUE
    /\ UNCHANGED <<threshold, pending, fpc, released, consumed, emitted, notFilterVars>>

\* The end of the range loop with the sends still to make given up.
FilterClose_early ==
    /\ fpc \in {"recv", "send"}
    /\ inClosed
    /\ fpc' = "closed"
    /\ UNCHANGED <<threshold, pending, inClosed, released, consumed, emitted, notFilterVars>>

\* `in` is closed and empty: the range loop ends and `out` is closed.
FilterClose ==
    /\ fpc = "recv"
    /\ inClosed
    /\ fpc' = "closed"
    /\ UNCHANGED <<threshold, pending, inClosed, released, consumed, emitted, notFilterVars>>

FilterInit ==
    /\ threshold \in 1..MaxThreshold
    /\ pending = [k \in FilterKeys |-> NoDam]
    /\ fpc = "recv"
    /\ inClosed = FALSE
    /\ released = <<>>
    /\ consumed = <<>>
    /\ emitted = <<>>

NextFilter == FilterRecv \/ FilterEmit \/ CloseIn \/ FilterClose

-----------------------------------------------------------------------------
(* Strings                                                                 *)

Uppers == <<"A", "B", "C", "D", "E", "F", "G", "H", "I", "J", "K", "L", "M",
            "N", "O", "P", "Q", "R", "S", "T", "U", "V", "W", "X", "Y", "Z",
            "<U+00C9>">>
Lowers == <<"a", "b", "c", "d", "e", "f", "g", "h", "i", "j", "k", "l", "m",
            "n", "o", "p", "q", "r", "s", "t", "u", "v", "w", "x", "y", "z",
            "<U+00E9>">>

\* The characters with a code point of 128 or more.
NonASCII == {"<U+00C9>", "<U+00E9>", "<U+2318>"}

\* strings.ToLower, one character.
ToLowerChar(c) ==
    IF \E i \in 1..Len(Uppers) : Uppers[i] = c
    THEN Lowers[CHOOSE i \in 1..Len(Uppers) : Uppers[i] = c]
    ELSE c

\* strings.ToLower
ToLower(str) == [i \in 1..Len(str) |-> ToLowerChar(str[i])]

\* strings.HasSuffix
HasSuffix(str, suffix) ==
    /\ Len(str) >= Len(suffix)
    /\ SubSeq(str, Len(str) - Len(suffix) + 1, Len(str)) = suffix

\* strings.TrimSuffix
TrimSuffix(str, suffix) ==
    IF HasSuffix(str, suffix) THEN SubSeq(str, 1, Len(str) - Len(suffix)) ELSE str

\* normalizeForReport: lower case, without one trailing ".".
normalizeForReport(domain) == ToLower(TrimSuffix(domain, <<".">>))

-----------------------------------------------------------------------------
(* Dates: time.Time at 00:00:00 UTC, and the layout "20060102"             *)

Digits == <<"0", "1", "2", "3", "4", "5", "6", "7", "8", "9">>

IsDigit(c) == \E i \in 1..10 : Digits[i] = c

DigitVal(c) == (CHOOSE i \in 1..10 : Digits[i] = c) - 1

\* The last `width` decimal digits of n, zero padded.
RECURSIVE Pad(_, _)
Pad(n, width) ==
    IF width = 0 THEN <<>> ELSE Append(Pad(n \div 10, width - 1), Digits[(n % 10) + 1])

\* The number a string of digits denotes.
RECURSIVE Atoi(_)
Atoi(str) ==
    IF str = <<>> THEN 0
    ELSE 10 * Atoi(SubSeq(str, 1, Len(str) - 1)) + DigitVal(str[Len(str)])

IsLeap(y) == (y % 4 = 0 /\ y % 100 # 0) \/ y % 400 = 0

DaysIn(m, y) ==
    IF m = 2 THEN (IF IsLeap(y) THEN 29 ELSE 28)
    ELSE IF m \in {4, 6, 9, 11} THEN 30 ELSE 31

\* Time.Format(dateForm) of a date with a year of four digits.
FormatDate(date) == Pad(date.year, 4) \o Pad(date.month, 2) \o Pad(date.day, 2)

\* time.Parse(dateForm, label): four digits of year, two of month, two of
\* day, nothing else, and a day that exists.
ParseDate(label) ==
    IF Len(label) # 8 \/ \E i \in 1..Len(label) : ~IsDigit(label[i])
    THEN [err |-> "parsing time", date |-> [year |-> 0, month |-> 0, day |-> 0]]
    ELSE LET y == Atoi(SubSeq(label, 1, 4))
             m == Atoi(SubSeq(label, 5, 6))
             d == Atoi(SubSeq(label, 7, 8))
         IN  IF m \notin 1..12 \/ d \notin 1..DaysIn(m, y)
             THEN [err |-> "parsing time", date |-> [year |-> 0, month |-> 0, day |-> 0]]
             ELSE [err |-> "nil", date |-> [year |-> y, month |-> m, day |-> d]]

-----------------------------------------------------------------------------
(* part_000: NewValue                                                      *)

\* The number of bytes of the UTF-8 encoding of a character.
ByteLen(c) == IF c = "<U+2318>" THEN 3 ELSE IF c \in NonASCII THEN 2 ELSE 1

\* len(v): the length in bytes.
RECURSIVE len(_)
len(v) == IF v = <<>> THEN 0 ELSE ByteLen(Head(v)) + len(Tail(v))

\* The longest Value.
maxValueLen == 63

\* NewValue without the check of the length.
NewValue_noLength(v) ==
    IF \E i \in 1..Len(v) : v[i] = "." THEN "Values cannot contain '.'"
    ELSE IF ToLower(v) # v THEN "Values must be all lower-case"
    ELSE IF \E i \in 1..Len(v) : v[i] \in NonASCII
    THEN "Values must contain only ASCII basic characters"
    ELSE "nil"

\* NewValue: the error, in the order the checks are made.
NewValue(v) ==
    IF \E i \in 1..Len(v) : v[i] = "." THEN "Values cannot contain '.'"
    ELSE IF ToLower(v) # v THEN "Values must be all lower-case"
    ELSE IF len(v) > maxValueLen THEN "Value is longer than 63 bytes"
    ELSE IF \E i \in 1..Len(v) : v[i] \in NonASCII
    THEN "Values must contain only ASCII basic characters"
    ELSE "nil"

-----------------------------------------------------------------------------
(* client.go: name                                                         *)

\* strings.Join(labels, ".")
RECURSIVE Join(_)
Join(labels) ==
    IF Len(labels) = 0 THEN <<>>
    ELSE IF Len(labels) = 1 THEN labels[1]
    ELSE labels[1] \o <<".">> \o Join(Tail(labels))

\* strings.Split(str, ".")
RECURSIVE Split(_)
Split(str) ==
    IF \A i \in 1..Len(str) : str[i] # "." THEN <<str>>
    ELSE LET i == CHOOSE k \in 1..Len(str) :
                     str[k] = "." /\ \A j \in 1..(k - 1) : str[j] # "."
         IN  <<SubSeq(str, 1, i - 1)>> \o Split(SubSeq(str, i + 1, Len(str)))

\* name with a dot after the suffix, as formatQuery would add it.
name_trailingDot(report, suffix) ==
    Join(report.Values \o
         <<report.bin, report.Country, FormatDate(report.Date), report.Domain, suffix>>)
    \o <<".">>

\* name: the labels of the values, then bin, country, date, domain, suffix.
name(report, suffix) ==
    Join(report.Values \o
         <<report.bin, report.Country, FormatDate(report.Date), report.Domain, suffix>>)

-----------------------------------------------------------------------------
(* client.go: cache                                                        *)

maxReports == 1000

\* The decimal digits of n, most significant first.
RECURSIVE Itoa(_)
Itoa(n) ==
    LET d == <<"0", "1", "2", "3", "4", "5", "6", "7", "8", "9">>[(n % 10) + 1]
    IN  IF n < 10 THEN <<d>> ELSE Append(Itoa(n \div 10), d)

\* The domains of TestCacheMaxReports: "domain<i>" for i in 1..n.
FillerDomains(n) == {<<"d", "o", "m", "a", "i", "n">> \o Itoa(i) : i \in 1..n}

\* The zero value of cache: the zero time and a nil map.
ZeroCache == [date |-> 0, cache |-> {}, isNil |-> TRUE]

\* cache.Add with the lookup of the domain left out.
cacheAdd_noDuplicateCheck(c, key) ==
    IF key.Date # c.date /\ key.Date < c.date
    THEN [c |-> c, added |-> FALSE, err |-> "Old date", panic |-> FALSE]
    ELSE
    LET flush == key.Date # c.date
        c1 == IF flush THEN [date |-> key.Date, cache |-> {}, isNil |-> FALSE] ELSE c
    IN  IF Cardinality(c1.cache) >= maxReports
        THEN [c |-> c1, added |-> FALSE, err |-> "Cache is full", panic |-> FALSE]
        ELSE IF c1.isNil
        THEN [c |-> c1, added |-> FALSE, err |-> "nil", panic |-> TRUE]
        ELSE [c |-> [c1 EXCEPT !.cache = @ \cup {key.Domain}],
              added |-> TRUE, err |-> "nil", panic |-> FALSE]

\* cache.Add with `len(c.cache) > maxReports` for the full cache.
cacheAdd_overfull(c, key) ==
    IF key.Date # c.date /\ key.Date < c.date
    THEN [c |-> c, added |-> FALSE, err |-> "Old date", panic |-> FALSE]
    ELSE
    LET flush == key.Date # c.date
        c1 == IF flush THEN [date |-> key.Date, cache |-> {}, isNil |-> FALSE] ELSE c
    IN  IF key.Domain \in c1.cache
        THEN [c |-> c1, added |-> FALSE, err |-> "nil", panic |-> FALSE]
        ELSE IF Cardinality(c1.cache) > maxReports
        THEN [c |-> c1, added |-> FALSE, err |-> "Cache is full", panic |-> FALSE]
        ELSE IF c1.isNil
        THEN [c |-> c1, added |-> FALSE, err |-> "nil", panic |-> TRUE]
        ELSE [c |-> [c1 EXCEPT !.cache = @ \cup {key.Domain}],
              added |-> TRUE, err |-> "nil", panic |-> FALSE]

\* cache.Add with the full cache tested before the lookup of the domain.
cacheAdd_capacityFirst(c, key) ==
    IF key.Date # c.date /\ key.Date < c.date
    THEN [c |-> c, added |-> FALSE, err |-> "Old date", panic |-> FALSE]
    ELSE
    LET flush == key.Date # c.date
        c1 == IF flush THEN [date |-> key.Date, cache |-> {}, isNil |-> FALSE] ELSE c
    IN  IF Cardinality(c1.cache) >= maxReports
        THEN [c |-> c1, added |-> FALSE, err |-> "Cache is full", panic |-> FALSE]
        ELSE IF key.Domain \in c1.cache
        THEN [c |-> c1, added |-> FALSE, err |-> "nil", panic |-> FALSE]
        ELSE IF c1.isNil
        THEN [c |-> c1, added |-> FALSE, err |-> "nil", panic |-> TRUE]
        ELSE [c |-> [c1 EXCEPT !.cache = @ \cup {key.Domain}],
              added |-> TRUE, err |-> "nil", panic |-> FALSE]

\* cache.Add with the flush left out: a later date is stored, the map kept.
cacheAdd_noFlush(c, key) ==
    IF key.Date # c.date /\ key.Date < c.date
    THEN [c |-> c, added |-> FALSE, err |-> "Old date", panic |-> FALSE]
    ELSE
    LET c1 == [c EXCEPT !.date = key.Date]
    IN  IF key.Domain \in c1.cache
        THEN [c |-> c1, added |-> FALSE, err |-> "nil", panic |-> FALSE]
        ELSE IF Cardinality(c1.cache) >= maxReports
        THEN [c |-> c1, added |-> FALSE, err |-> "Cache is full", panic |-> FALSE]
        ELSE IF c1.isNil
        THEN [c |-> c1, added |-> FALSE, err |-> "nil", panic |-> TRUE]
        ELSE [c |-> [c1 EXCEPT !.cache = @ \cup {key.Domain}],
              added |-> TRUE, err |-> "nil", panic |-> FALSE]

\* cache.Add without the test of key.Date.Before(c.date): an older date
\* flushes the cache like a later one.
cacheAdd_acceptOld(c, key) ==
    LET flush == key.Date # c.date
        c1 == IF flush THEN [date |-> key.Date, cache |-> {}, isNil |-> FALSE] ELSE c
    IN  IF key.Domain \in c1.cache
        THEN [c |-> c1, added |-> FALSE, err |-> "nil", panic |-> FALSE]
        ELSE IF Cardinality(c1.cache) >= maxReports
        THEN [c |-> c1, added |-> FALSE, err |-> "Cache is full", panic |-> FALSE]
        ELSE IF c1.isNil
        THEN [c |-> c1, added |-> FALSE, err |-> "nil", panic |-> TRUE]
        ELSE [c |-> [c1 EXCEPT !.cache = @ \cup {key.Domain}],
              added |-> TRUE, err |-> "nil", panic |-> FALSE]

\* cache.Add with a map that keeps only the domain added last.
cacheAdd_lastOnly(c, key) ==
    IF key.Date # c.date /\ key.Date < c.date
    THEN [c |-> c, added |-> FALSE, err |-> "Old date", panic |-> FALSE]
    ELSE
    LET flush == key.Date # c.date
        c1 == IF flush THEN [date |-> key.Date, cache |-> {}, isNil |-> FALSE] ELSE c
    IN  IF key.Domain \in c1.cache
        THEN [c |-> c1, added |-> FALSE, err |-> "nil", panic |-> FALSE]
        ELSE IF Cardinality(c1.cache) >= maxReports
        THEN [c |-> c1, added |-> FALSE, err |-> "Cache is full", panic |-> FALSE]
        ELSE IF c1.isNil
        THEN [c |-> c1, added |-> FALSE, err |-> "nil", panic |-> TRUE]
        ELSE [c |-> [c1 EXCEPT !.cache = {key.Domain}],
              added |-> TRUE, err |-> "nil", panic |-> FALSE]

\* cache.Add: the cache afterwards, the two results, and whether the
\* assignment at client.go:213 hit a nil map.
cacheAdd(c, key) ==
    IF key.Date # c.date /\ key.Date < c.date
    THEN [c |-> c, added |-> FALSE, err |-> "Old date", panic |-> FALSE]
    ELSE
    LET flush == key.Date # c.date
        c1 == IF flush THEN [date |-> key.Date, cache |-> {}, isNil |-> FALSE] ELSE c
    IN  IF key.Domain \in c1.cache
        THEN [c |-> c1, added |-> FALSE, err |-> "nil", panic |-> FALSE]
        ELSE IF Cardinality(c1.cache) >= maxReports
        THEN [c |-> c1, added |-> FALSE, err |-> "Cache is full", panic |-> FALSE]
        ELSE IF c1.isNil
        THEN [c |-> c1, added |-> FALSE, err |-> "nil", panic |-> TRUE]
        ELSE [c |-> [c1 EXCEPT !.cache = @ \cup {key.Domain}],
              added |-> TRUE, err |-> "nil", panic |-> FALSE]

-----------------------------------------------------------------------------
(* client.go: the pipeline builder -> onceADaySender -> burstSender -> sender *)

Threads == {"t1", "t2"}

\* The configuration NewReporter was given: one value per report, country "zz".
builderValues == 1
builderCountry == <<"z", "z">>

\* The longest name dnsmessage.NewName accepts.
nameLen == 255

\* The domains callers report: plain, upper case with a trailing dot,
\* another one, and one that NewName rejects.
RawDomains == {<<"a">>, <<"A", ".">>, <<"b">>, [i \in 1..(nameLen + 1) |-> "a"]}

\* The arguments of the n-th call of Report: each domain with one value
\* tagged n (as the tests tag values with strconv.Itoa(i)), and one call
\* with a value too many.
ReportArgs(n) ==
    {[domain |-> d, values |-> <<n>>] : d \in RawDomains}
    \cup {[domain |-> <<"a">>, values |-> <<n, n>>]}

\* Report{}
ZeroReport == [Domain |-> <<>>, Country |-> <<>>, Date |-> 0, Values |-> <<>>]

KeyOf(r) == [Domain |-> r.Domain, Country |-> r.Country, Date |-> r.Date]

\* reportBuilder.build without the test of len(values).
build_anyValues(domain, values) ==
    IF Len(domain) > nameLen
    THEN [err |-> "NewName", report |-> ZeroReport]
    ELSE [err |-> "nil",
          report |-> [Domain |-> normalizeForReport(domain),
                      Country |-> builderCountry,
                      Date |-> clock,
                      Values |-> values]]

\* reportBuilder.build: the error, or the report built at the current day.
build(domain, values) ==
    IF Len(values) # builderValues
    THEN [err |-> "Wrong number of values", report |-> ZeroReport]
    ELSE IF Len(domain) > nameLen
    THEN [err |-> "NewName", report |-> ZeroReport]
    ELSE [err |-> "nil",
          report |-> [Domain |-> normalizeForReport(domain),
                      Country |-> builderCountry,
                      Date |-> clock,
                      Values |-> values]]

\* reporter.Report up to the call of r.sender.Send, by caller t with
\* arguments from argset, while fewer than max calls have been made.
ReportWith(t, argset, max) ==
    /\ cpc[t] = "idle"
    /\ ncalls < max
    /\ ncalls' = ncalls + 1
    /\ \E args \in argset :
          LET b == build(args.domain, args.values)
          IN  IF b.err # "nil"
              THEN /\ cresult' = [cresult EXCEPT ![t] = b.err]
                   /\ UNCHANGED <<cpc, creport>>
              ELSE /\ cpc' = [cpc EXCEPT ![t] = "onceADay"]
                   /\ creport' = [creport EXCEPT ![t] = b.report]
                   /\ cresult' = [cresult EXCEPT ![t] = "running"]
    /\ UNCHANGED <<clock, cache, count, bpending, timers, inflight, sent,
                   cadd, burstNo, burstLog, notClientVars>>

Report(t) == ReportWith(t, ReportArgs(ncalls + 1), MaxCalls)

\* The arguments of the n-th call in a day of valid reports: two domains,
\* one value tagged n.
DayArgs(n) == {[domain |-> d, values |-> <<n>>] : d \in {<<"a">>, <<"b">>}}

ReportDay(t) == ReportWith(t, DayArgs(ncalls + 1), MaxDayCalls)

\* What cache.Add returned, in one word.
AddOutcome(res) ==
    IF res.panic THEN "panic"
    ELSE IF res.err # "nil" THEN res.err
    ELSE IF res.added THEN "added" ELSE "duplicate"

\* onceADayReportSender.Send without the `else if !added` branch: only an
\* error of Add stops the report.
OnceADaySend_forwardDuplicates(t) ==
    /\ cpc[t] = "onceADay"
    /\ LET res == cacheAdd(cache, KeyOf(creport[t]))
       IN  /\ cache' = res.c
           /\ cadd' = [cadd EXCEPT ![t] = AddOutcome(res)]
           /\ IF res.panic
              THEN /\ cpc' = [cpc EXCEPT ![t] = "panic"]
                   /\ UNCHANGED <<cresult, creport>>
              ELSE IF res.err # "nil"
              THEN /\ cpc' = [cpc EXCEPT ![t] = "idle"]
                   /\ cresult' = [cresult EXCEPT ![t] = "nil"]
                   /\ creport' = [creport EXCEPT ![t] = ZeroReport]
              ELSE /\ cpc' = [cpc EXCEPT ![t] = "burst"]
                   /\ UNCHANGED <<cresult, creport>>
    /\ UNCHANGED <<clock, count, bpending, timers, inflight, sent,
                   ncalls, burstNo, burstLog, notClientVars>>

\* onceADayReportSender.Send: cache.Add under s.mu, then either return nil
\* or go on to s.sender.Send(report).
OnceADaySend(t) ==
    /\ cpc[t] = "onceADay"
    /\ LET res == cacheAdd(cache, KeyOf(creport[t]))
       IN  /\ cache' = res.c
           /\ cadd' = [cadd EXCEPT ![t] = AddOutcome(res)]
           /\ IF res.panic
              THEN /\ cpc' = [cpc EXCEPT ![t] = "panic"]
                   /\ UNCHANGED <<cresult, creport>>
              ELSE IF res.err # "nil" \/ ~res.added
              THEN /\ cpc' = [cpc EXCEPT ![t] = "idle"]
                   /\ cresult' = [cresult EXCEPT ![t] = "nil"]
                   /\ creport' = [creport EXCEPT ![t] = ZeroReport]
              ELSE /\ cpc' = [cpc EXCEPT ![t] = "burst"]
                   /\ UNCHANGED <<cresult, creport>>
    /\ UNCHANGED <<clock, count, bpending, timers, inflight, sent,
                   ncalls, burstNo, burstLog, notClientVars>>

\* `if l.count == 1` with the comparison loosened: every Send schedules.
scheduleDrain_always(cnt) == cnt >= 1

\* `if l.count == 1`: whether this Send schedules a drain.
scheduleDrain(cnt) == cnt = 1

\* The replacement with every draw taken for a 0.
reservoir_always(kept, rnd, r) == r

\* `else if i.Int64() == 0 { l.pending = r }`: the pending report after a
\* draw rnd for report r, `kept` being the one pending before.
reservoir(kept, rnd, r) == IF rnd = 0 THEN r ELSE kept

\* drain with the unlock deferred to its end: l.mu stays held while a
\* drain is inside sender.Send.
muHeld_deferred(infl) == infl # {}

\* Whether l.mu is held between the steps below, given the drains that are
\* inside sender.Send: drain unlocks (client.go:100) before it calls the
\* sender, and Send and the head of drain are each one step.
muHeld(infl) == FALSE

\* burstReportSender.Send, the whole body under l.mu. rnd is the outcome of
\* rand.Int(rand.Reader, count): -1 for an error, else the index drawn.
BurstSend(t) ==
    /\ cpc[t] = "burst"
    /\ ~muHeld(inflight)
    /\ \E rnd \in -1..count :
          /\ count' = count + 1
          /\ IF rnd = -1
             THEN /\ cresult' = [cresult EXCEPT ![t] = "rand error"]
                  /\ UNCHANGED <<bpending, timers>>
             ELSE /\ bpending' = reservoir(bpending, rnd, creport[t])
                  /\ timers' = IF scheduleDrain(count') THEN timers + 1 ELSE timers
                  /\ cresult' = [cresult EXCEPT ![t] = "nil"]
    /\ cpc' = [cpc EXCEPT ![t] = "idle"]
    /\ creport' = [creport EXCEPT ![t] = ZeroReport]
    /\ burstNo' = IF count = 0 THEN burstNo + 1 ELSE burstNo
    /\ burstLog' = Append(burstLog, [r |-> creport[t], burst |-> burstNo'])
    /\ UNCHANGED <<clock, cache, inflight, sent, cadd, ncalls, notClientVars>>

\* burstReportSender.drain up to the unlock: a scheduled timer fires, the
\* drain captures pending and resets count, and goes on to sender.Send(r).
Drain ==
    /\ timers > 0
    /\ ~muHeld(inflight)
    /\ timers' = timers - 1
    /\ count' = 0
    /\ inflight' = inflight \cup {[r |-> bpending, burst |-> burstNo,
                                   drain |-> Cardinality(inflight) + Cardinality(sent) + 1]}
    /\ UNCHANGED <<clock, cache, bpending, sent, cpc, creport, cresult, cadd, ncalls,
                   burstNo, burstLog, notClientVars>>

\* The end of drain with a retry added: a failed Send puts the report back.
DrainSend_requeue(d, err) ==
    /\ d \in inflight
    /\ sent' = sent \cup {[r |-> d.r, burst |-> d.burst, drain |-> d.drain, err |-> err]}
    /\ inflight' = inflight \ {d}
    /\ IF err = "nil"
       THEN UNCHANGED <<count, bpending>>
       ELSE count' = count + 1 /\ bpending' = d.r
    /\ UNCHANGED <<clock, cache, timers, cpc, creport, cresult, cadd, ncalls,
                   burstNo, burstLog, notClientVars>>

\* The end of drain: the embedder's Send, called with the report drain d
\* captured, returns err, which is only logged.
DrainSend(d, err) ==
    /\ d \in inflight
    /\ sent' = sent \cup {[r |-> d.r, burst |-> d.burst, drain |-> d.drain, err |-> err]}
    /\ inflight' = inflight \ {d}
    /\ UNCHANGED <<clock, cache, count, bpending, timers, cpc, creport, cresult,
                   cadd, ncalls, burstNo, burstLog, notClientVars>>

\* Midnight UTC passes.
Tick ==
    /\ clock < MaxDay
    /\ clock' = clock + 1
    /\ UNCHANGED <<cache, count, bpending, timers, inflight, sent, cpc, creport,
                   cresult, cadd, ncalls, burstNo, burstLog, notClientVars>>

\* A new reporter, or one whose cache already holds maxReports - 1 domains
\* of the current day.
ClientInit ==
    /\ clock = 1
    /\ cache \in {ZeroCache,
                  [date |-> 1, cache |-> FillerDomains(maxReports - 1), isNil |-> FALSE]}
    /\ count = 0
    /\ bpending = ZeroReport
    /\ timers = 0
    /\ inflight = {}
    /\ sent = {}
    /\ cpc = [t \in Threads |-> "idle"]
    /\ creport = [t \in Threads |-> ZeroReport]
    /\ cresult = [t \in Threads |-> "none"]
    /\ cadd = [t \in Threads |-> "none"]
    /\ ncalls = 0
    /\ burstNo = 0
    /\ burstLog = <<>>

\* The pipeline before any use, for the specifications of the other parts.
ClientRest == ClientInit /\ cache = ZeroCache

\* The pipeline fed valid reports of two domains within one day.
NextDay ==
    \/ \E t \in Threads : ReportDay(t)
    \/ \E t \in Threads : OnceADaySend(t)
    \/ \E t \in Threads : BurstSend(t)
    \/ Drain
    \/ \E d \in inflight, err \in {"nil", "error"} : DrainSend(d, err)

NextClient ==
    \/ \E t \in Threads : Report(t)
    \/ \E t \in Threads : OnceADaySend(t)
    \/ \E t \in Threads : BurstSend(t)
    \/ Drain
    \/ \E d \in inflight, err \in {"nil", "error"} : DrainSend(d, err)
    \/ Tick

-----------------------------------------------------------------------------
(* server.go: Receiver.ParseReport                                         *)

ZeroDate == [year |-> 0, month |-> 0, day |-> 0]

\* The nil *Report returned with an error.
NoReport == [Domain |-> <<>>, Country |-> <<>>, Date |-> ZeroDate,
             Values |-> <<>>, bin |-> <<>>]

\* ParseReport with the test of the number of labels off by one.
ParseReport_shortByOne(r, nm) ==
    IF \E i \in 1..Len(nm) : nm[i] \in NonASCII
    THEN [err |-> "Non-ASCII characters are unsupported", report |-> NoReport]
    ELSE
    LET name1 == normalizeForReport(nm)
        suffix == normalizeForReport(r.Suffix)
    IN  IF ~HasSuffix(name1, suffix)
        THEN [err |-> "name is missing suffix", report |-> NoReport]
        ELSE
        LET name2 == TrimSuffix(TrimSuffix(name1, suffix), <<".">>)
            labels == Split(name2)
        IN  IF Len(labels) <= r.Values + 2
            THEN [err |-> "Name is too short", report |-> NoReport]
            ELSE
            LET valueLabels == SubSeq(labels, 1, r.Values)
                rest == SubSeq(labels, r.Values + 1, Len(labels))
                bad == {i \in 1..r.Values : NewValue(valueLabels[i]) # "nil"}
                date == ParseDate(rest[3])
            IN  IF bad # {}
                THEN [err |-> NewValue(valueLabels[CHOOSE i \in bad : \A j \in bad : i <= j]),
                      report |-> NoReport]
                ELSE IF date.err # "nil"
                THEN [err |-> date.err, report |-> NoReport]
                ELSE [err |-> "nil",
                      report |-> [Domain |-> Join(SubSeq(rest, 4, Len(rest))),
                                  Country |-> rest[2],
                                  Date |-> date.date,
                                  Values |-> valueLabels,
                                  bin |-> rest[1]]]

\* Receiver.ParseReport: the error and the report.
ParseReport(r, nm) ==
    IF \E i \in 1..Len(nm) : nm[i] \in NonASCII
    THEN [err |-> "Non-ASCII characters are unsupported", report |-> NoReport]
    ELSE
    LET name1 == normalizeForReport(nm)
        suffix == normalizeForReport(r.Suffix)
    IN  IF ~HasSuffix(name1, suffix)
        THEN [err |-> "name is missing suffix", report |-> NoReport]
        ELSE
        LET name2 == TrimSuffix(TrimSuffix(name1, suffix), <<".">>)
            labels == Split(name2)
        IN  IF Len(labels) <= r.Values + 3
            THEN [err |-> "Name is too short", report |-> NoReport]
            ELSE
            LET valueLabels == SubSeq(labels, 1, r.Values)
                rest == SubSeq(labels, r.Values + 1, Len(labels))
                bad == {i \in 1..r.Values : NewValue(valueLabels[i]) # "nil"}
                date == ParseDate(rest[3])
            IN  IF bad # {}
                THEN [err |-> NewValue(valueLabels[CHOOSE i \in bad : \A j \in bad : i <= j]),
                      report |-> NoReport]
                ELSE IF date.err # "nil"
                THEN [err |-> date.err, report |-> NoReport]
                ELSE [err |-> "nil",
                      report |-> [Domain |-> Join(SubSeq(rest, 4, Len(rest))),
                                  Country |-> rest[2],
                                  Date |-> date.date,
                                  Values |-> valueLabels,
                                  bin |-> rest[1]]]

-----------------------------------------------------------------------------
(* The round trip name -> ParseReport                                      *)

\* The domains reportBuilder.build accepts, as it stores them in the Key.
NameDomains ==
    {normalizeForReport(d) : d \in {<<"w", ".", "a">>, <<"A", ".", "b", ".">>, <<>>,
                                    <<"<U+00C9>", ".", "a">>}}

\* strings.ToLower of a two-byte country given to newReportBuilder.
NameCountries == {ToLower(c) : c \in {<<"Z", "Z">>, <<"a", ".">>}}

NameDates == {[year |-> 1413, month |-> 12, day |-> 11],
              [year |-> 2020, month |-> 2, day |-> 29]}

\* No value, the two values of the tests (shortened), one empty value.
NameValues == {<<>>, << <<"1", "m", "s">>, <<"h">> >>, << <<>> >>}

NameBins == {<<"q">>, <<"a", "b">>}

NameSuffixes == {<<"m", ".", "x">>, <<"M", ".", "x", ".">>, <<>>}

NameInit ==
    /\ npc = "input"
    /\ nreport \in [Domain : NameDomains, Country : NameCountries, Date : NameDates,
                    Values : NameValues, bin : NameBins]
    /\ nsuffix \in NameSuffixes
    /\ nname = <<>>
    /\ nparsed = [err |-> "none", report |-> NoReport]

\* The name part before any use, for the specifications of the other parts.
NameRest ==
    /\ npc = "input"
    /\ nreport = NoReport
    /\ nsuffix = <<>>
    /\ nname = <<>>
    /\ nparsed = [err |-> "none", report |-> NoReport]

\* The client computes name(report, suffix).
DoName ==
    /\ npc = "input"
    /\ nname' = name(nreport, nsuffix)
    /\ npc' = "named"
    /\ UNCHANGED <<nreport, nsuffix, nparsed, notNameVars>>

\* A Receiver with that suffix and that many values parses the name.
DoParseReport ==
    /\ npc = "named"
    /\ nparsed' = ParseReport([Suffix |-> nsuffix, Values |-> Len(nreport.Values)], nname)
    /\ npc' = "parsed"
    /\ UNCHANGED <<nreport, nsuffix, nname, notNameVars>>

NextName == DoName \/ DoParseReport

-----------------------------------------------------------------------------
(* client.go: newHashBinner and the salt store                             *)

\* # of bytes of local salt for bin assignments
saltsize == 16

Min(a, b) == IF a < b THEN a ELSE b

\* file.Read(p) with len(p) = size, on a store opened at `offset`: the
\* bytes from there to the end, at most `size` of them; io.EOF when there
\* is none; or an error of the device.
Read(file, offset, size, readErr) ==
    LET n == Min(size, Len(file) - offset)
    IN  IF readErr THEN [n |-> 0, err |-> "read error", data |-> <<>>]
        ELSE IF n = 0 THEN [n |-> 0, err |-> "EOF", data |-> <<>>]
        ELSE [n |-> n, err |-> "nil", data |-> SubSeq(file, offset + 1, offset + n)]

\* file.Write(p) at `offset`: the first `written` bytes of p replace or
\* extend what the store holds from there.
Write(file, offset, p, written) ==
    LET q == SubSeq(p, 1, written)
    IN  SubSeq(file, 1, offset) \o q \o SubSeq(file, offset + Len(q) + 1, Len(file))

\* var salt [saltsize]byte
ZeroSalt == [i \in 1..saltsize |-> 0]

\* copy(dst[at:], src), at counted from 0
Copy(dst, at, src) ==
    [i \in 1..Len(dst) |->
        IF i > at /\ i <= at + Len(src) THEN src[i - at] ELSE dst[i]]

\* A construction that returns (nil, err).
NoBinner(file, n, wrote, err) ==
    [file |-> file, err |-> err, salt |-> <<>>, n |-> n, wrote |-> wrote]

\* newHashBinner that leaves salt[n:] as it is after the write.
newHashBinner_noCopy(file, bins, env) ==
    IF bins <= 0 THEN NoBinner(file, 0, 0, "Users must be assigned to at least one bin")
    ELSE
    LET r == Read(file, 0, saltsize, env.readErr)
        salt == Copy(ZeroSalt, 0, r.data)
    IN  IF r.err \notin {"nil", "EOF"} THEN NoBinner(file, r.n, 0, r.err)
        ELSE IF r.n < saltsize
        THEN LET extra == [i \in 1..(saltsize - r.n) |-> env.fill]
             IN  IF env.randErr THEN NoBinner(file, r.n, 0, "rand error")
                 ELSE IF env.written >= 0
                 THEN LET w == Min(env.written, Len(extra))
                      IN  NoBinner(Write(file, r.n, extra, w), r.n, w, "write error")
                 ELSE [file |-> Write(file, r.n, extra, Len(extra)), err |-> "nil",
                       salt |-> salt, n |-> r.n, wrote |-> Len(extra)]
        ELSE [file |-> file, err |-> "nil", salt |-> salt, n |-> r.n, wrote |-> 0]

\* newHashBinner that makes and writes the missing bytes and one more.
newHashBinner_oneMore(file, bins, env) ==
    IF bins <= 0 THEN NoBinner(file, 0, 0, "Users must be assigned to at least one bin")
    ELSE
    LET r == Read(file, 0, saltsize, env.readErr)
        salt == Copy(ZeroSalt, 0, r.data)
    IN  IF r.err \notin {"nil", "EOF"} THEN NoBinner(file, r.n, 0, r.err)
        ELSE IF r.n <= saltsize
        THEN LET extra == [i \in 1..(saltsize - r.n + 1) |-> env.fill]
             IN  IF env.randErr THEN NoBinner(file, r.n, 0, "rand error")
                 ELSE IF env.written >= 0
                 THEN LET w == Min(env.written, Len(extra))
                      IN  NoBinner(Write(file, r.n, extra, w), r.n, w, "write error")
                 ELSE [file |-> Write(file, r.n, extra, Len(extra)), err |-> "nil",
                       salt |-> Copy(salt, r.n, extra), n |-> r.n, wrote |-> Len(extra)]
        ELSE [file |-> file, err |-> "nil", salt |-> salt, n |-> r.n, wrote |-> 0]

\* newHashBinner(file, bins) on a store opened at its start: the store
\* afterwards, the error, the salt of the binner, the n that Read returned
\* and the number of bytes written. env is what the device and the random
\* source do: readErr, randErr, the byte `fill` that rand.Read repeats, and
\* `written`, the number of bytes Write stores before it fails (-1: no
\* failure).
newHashBinner(file, bins, env) ==
    IF bins <= 0 THEN NoBinner(file, 0, 0, "Users must be assigned to at least one bin")
    ELSE
    LET r == Read(file, 0, saltsize, env.readErr)
        salt == Copy(ZeroSalt, 0, r.data)
    IN  IF r.err \notin {"nil", "EOF"} THEN NoBinner(file, r.n, 0, r.err)
        ELSE IF r.n < saltsize
        THEN LET extra == [i \in 1..(saltsize - r.n) |-> env.fill]
             IN  IF env.randErr THEN NoBinner(file, r.n, 0, "rand error")
                 ELSE IF env.written >= 0
                 THEN LET w == Min(env.written, Len(extra))
                      IN  NoBinner(Write(file, r.n, extra, w), r.n, w, "write error")
                 ELSE [file |-> Write(file, r.n, extra, Len(extra)), err |-> "nil",
                       salt |-> Copy(salt, r.n, extra), n |-> r.n, wrote |-> Len(extra)]
        ELSE [file |-> file, err |-> "nil", salt |-> salt, n |-> r.n, wrote |-> 0]

\* The bins arguments: none, and the 32 of the tests.
SaltBins == {0, 32}

\* The bytes rand.Read produces, one value repeated.
RandBytes == {1, 2}

SaltEnvs == [readErr : BOOLEAN, randErr : BOOLEAN, fill : RandBytes, written : -1..1]

\* The stores a construction may find: empty, partly written, full, longer.
SaltFiles == {[i \in 1..n |-> (i + p) % 3] : n \in 0..MaxFileLen, p \in 0..1}

SaltInit ==
    /\ sfile \in SaltFiles
    /\ sbefore = sfile
    /\ slog = <<>>

\* The salt part before any use, for the specifications of the other parts.
SaltRest ==
    /\ sfile = <<>>
    /\ sbefore = <<>>
    /\ slog = <<>>

\* A process opens the store (os.OpenFile) and calls newHashBinner on it.
CallNewHashBinner ==
    /\ Len(slog) < MaxConstructions
    /\ \E bins \in SaltBins, env \in SaltEnvs :
         LET res == newHashBinner(sfile, bins, env)
         IN  /\ sfile' = res.file
             /\ sbefore' = sfile
             /\ slog' = Append(slog, [err |-> res.err, salt |-> res.salt,
                                      n |-> res.n, wrote |-> res.wrote])
    /\ UNCHANGED notSaltVars

NextSalt == CallNewHashBinner

-----------------------------------------------------------------------------
(* client.go: hashBinner.bin                                               *)

\* See encodeStd in encoding/base32
base32 == <<"a", "b", "c", "d", "e", "f", "g", "h", "i", "j", "k", "l", "m",
            "n", "o", "p", "q", "r", "s", "t", "u", "v", "w", "x", "y", "z",
            "2", "3", "4", "5", "6", "7">>

\* base32size without the case of val = 0.
RECURSIVE base32size_noZero(_)
base32size_noZero(val) ==
    IF val = 0 THEN 0 ELSE 1 + base32size_noZero(val \div 32)

\* base32size: the number of characters required to represent val; the
\* loop `for v := val; v != 0; v >>= 5` counts the groups of 5 bits.
RECURSIVE base32size(_)
base32size(val) ==
    IF val = 0 THEN 1
    ELSE IF val \div 32 = 0 THEN 1
    ELSE 1 + base32size(val \div 32)

\* The byte a character of the hashed message stands for (non-ASCII
\* characters and unknown ones by one byte of their own).
CharCode(c) ==
    IF \E i \in 1..26 : Lowers[i] = c THEN 96 + (CHOOSE i \in 1..26 : Lowers[i] = c)
    ELSE IF IsDigit(c) THEN 48 + DigitVal(c)
    ELSE IF c = "." THEN 46
    ELSE IF c = ";" THEN 59
    ELSE IF c \in NonASCII THEN 195
    ELSE 63

RECURSIVE Mix(_)
Mix(bytes) ==
    IF bytes = <<>> THEN 7
    ELSE (Mix(SubSeq(bytes, 1, Len(bytes) - 1)) * 33 + bytes[Len(bytes)]) % 65521

\* hmac.New(sha256.New, salt) fed msg, then Sum(nil): the first 8 of its
\* 32 bytes. HMAC-SHA-256 is a fixed function of the key and the message;
\* it is stood for by a fixed mixing function of the two.
hmacSum(salt, msg) ==
    [j \in 1..8 |-> Mix(<<j>> \o salt \o [i \in 1..Len(msg) |-> CharCode(msg[i])]) % 256]

\* binary.LittleEndian.Uint64(code) % m, by Horner's rule from the most
\* significant byte code[i] down, so that no intermediate exceeds 256 * m.
RECURSIVE Uint64Mod(_, _, _)
Uint64Mod(code, i, m) ==
    IF i > 8 THEN 0
    ELSE (Uint64Mod(code, i + 1, m) * 256 + code[i]) % m

\* The loop filling chars from the front: least significant digit first.
RECURSIVE base32chars_littleEndian(_, _)
base32chars_littleEndian(b, size) ==
    IF size = 0 THEN <<>>
    ELSE <<base32[(b % 32) + 1]>> \o base32chars_littleEndian(b \div 32, size - 1)

\* The loop `for i := size - 1; i >= 0; i--`: the last `size` base32
\* digits of b, most significant first.
RECURSIVE base32chars(_, _)
base32chars(b, size) ==
    IF size = 0 THEN <<>>
    ELSE Append(base32chars(b \div 32, size - 1), base32[(b % 32) + 1])

\* hashBinner.bin from h.Sum(nil) on: the bin number and its label.
binOfCode(code, bins) ==
    base32chars(Uint64Mod(code, 1, bins), base32size(bins - 1))

\* hashBinner.bin
bin(b, k) ==
    binOfCode(hmacSum(b.salt, k.Domain \o <<";">> \o k.Country \o <<";">>
                              \o FormatDate(k.Date)),
              b.bins)

\* build with the values hashed along with the key.
buildBin_withValues(b, key, values) ==
    binOfCode(hmacSum(b.salt, key.Domain \o <<";">> \o key.Country \o <<";">>
                              \o FormatDate(key.Date) \o Join(values)), b.bins)

\* reportBuilder.build, the line `bin := b.binner.bin(key)`: the values of
\* the report are not handed to the binner.
buildBin(b, key, values) == bin(b, key)

\* The salts newHashBinner reads from a full store.
BinSalts == {[i \in 1..saltsize |-> (i + p) % 3] : p \in 0..1}

\* The numbers of bins: the least, around the step from one to two
\* characters, the 255 of the tests' upper end and 1024.
BinCounts == {1, 2, 32, 33, 255, 1024}

BinKeys ==
    [Domain : {<<"a">>, <<"w", ".", "a">>}, Country : {<<"z", "z">>},
     Date : {[year |-> 2020, month |-> 2, day |-> 29]}]

\* The values of a report, as the tests number them.
BinValues == {<< <<"0">> >>, << <<"1">> >>}

BinInit ==
    /\ bbinners \in [1..2 -> [salt : BinSalts, bins : BinCounts]]
    /\ blog = {}

\* The bin part before any use, for the specifications of the other parts.
BinRest ==
    /\ bbinners = [i \in 1..2 |-> [salt |-> ZeroSalt, bins |-> 1]]
    /\ blog = {}

\* build on the builder of binner i: the bin label of the report.
BuildBin(i) ==
    /\ Cardinality(blog) < MaxBinCalls
    /\ \E key \in BinKeys, values \in BinValues :
          blog' = blog \cup {[binner |-> i, key |-> key, values |-> values,
                              nth |-> Cardinality(blog) + 1,
                              label |-> buildBin(bbinners[i], key, values)]}
    /\ UNCHANGED <<bbinners, notBinVars>>

NextBin == \E i \in 1..2 : BuildBin(i)

-----------------------------------------------------------------------------
(* part_000: calls of NewValue                                             *)

\* Value{v}, and the Value{} returned with an error.
MakeValue(v) == [v |-> v]
ZeroValue == [v |-> <<>>]

\* Value.String
String(val) == val.v

\* The characters the short inputs are made of.
ValueChars == {"a", "A", ".", "0", "<U+00E9>", "<U+2318>"}

\* The strings given to NewValue: all those of up to 2 characters, those of
\* the tests, and strings around the limit of 63 bytes.
ValueInputs ==
    UNION {[1..n -> ValueChars] : n \in 0..2}
    \cup {<<"1", "5", "0", "m", "s">>, <<"A", "s", "d", "f">>,
          <<"a", "<U+2318>", "c", "d">>,
          <<"a", "s", "d", "f", ".", "1", "2", "3", "4">>}
    \cup {[i \in 1..n |-> "0"] : n \in 62..65}
    \cup {[i \in 1..n |-> IF i = 1 THEN "A" ELSE "0"] : n \in 63..64}
    \cup {[i \in 1..n |-> IF i = 1 THEN "." ELSE "0"] : n \in 63..64}
    \cup {[i \in 1..n |-> IF i = 1 THEN "<U+00E9>" ELSE "0"] : n \in 61..63}

ValueInit ==
    /\ vpc = "input"
    /\ vinput \in ValueInputs
    /\ vvalue = ZeroValue
    /\ verr = "none"

\* The value part before any use, for the specifications of the other parts.
ValueRest ==
    /\ vpc = "input"
    /\ vinput = <<>>
    /\ vvalue = ZeroValue
    /\ verr = "none"

\* A call of NewValue(vinput).
CallNewValue ==
    /\ vpc = "input"
    /\ verr' = NewValue(vinput)
    /\ vvalue' = IF NewValue(vinput) = "nil" THEN MakeValue(vinput) ELSE ZeroValue
    /\ vpc' = "done"
    /\ UNCHANGED <<vinput, notValueVars>>

NextValue == CallNewValue

-----------------------------------------------------------------------------
(* client.go: burstReportSender, one burst with its random draws           *)

ReservoirInit ==
    /\ rpc = "burst"
    /\ rcount = 0
    /\ rpending = 0
    /\ rtimer = FALSE
    /\ rdraws = <<>>
    /\ rsent = [r |-> 0, err |-> "none"]

\* burstReportSender.Send of the next report, numbered by its arrival.
\* rand.Int(rand.Reader, count) fails (-1) or draws rnd uniformly from
\* 0..count-1.
ReservoirSend ==
    /\ rpc = "burst"
    /\ Len(rdraws) < MaxBurst
    /\ rcount' = rcount + 1
    /\ \E rnd \in -1..rcount :
          /\ rdraws' = Append(rdraws, rnd)
          /\ IF rnd = -1
             THEN UNCHANGED <<rpending, rtimer>>
             ELSE /\ rpending' = reservoir(rpending, rnd, Len(rdraws) + 1)
                  /\ rtimer' = (rtimer \/ scheduleDrain(rcount'))
    /\ UNCHANGED <<rpc, rsent, notReservoirVars>>

\* drain up to the unlock, when the timer fires.
ReservoirDrain ==
    /\ rpc = "burst"
    /\ rtimer
    /\ rtimer' = FALSE
    /\ rcount' = 0
    /\ rsent' = [r |-> rpending, err |-> "none"]
    /\ rpc' = "draining"
    /\ UNCHANGED <<rpending, rdraws, notReservoirVars>>

\* The rest of drain: sender.Send(r) returns err.
ReservoirDeliver(err) ==
    /\ rpc = "draining"
    /\ rsent' = [rsent EXCEPT !.err = err]
    /\ rpc' = "sent"
    /\ UNCHANGED <<rcount, rpending, rtimer, rdraws, notReservoirVars>>

NextReservoir ==
    \/ ReservoirSend
    \/ ReservoirDrain
    \/ \E err \in {"nil", "error"} : ReservoirDeliver(err)

-----------------------------------------------------------------------------
(* client.go: cache, one value with the calls of Add made on it            *)

\* The keys given to Add: two domains, and the dates from the day before
\* the zero time.Time (-1), the zero time.Time itself (0), and on to MaxDate.
CacheKeys ==
    [Domain : {<<"a">>, <<"b">>}, Country : {builderCountry}, Date : -1..MaxDate]

\* `c := cache{}`
CacheInit ==
    /\ kcache = ZeroCache
    /\ kpc = "ready"
    /\ klog = <<>>

CacheRest == CacheInit

\* c.Add(key); the goroutine ends if the map assignment panics.
CallAdd ==
    /\ kpc = "ready"
    /\ Len(klog) < MaxAdds
    /\ \E key \in CacheKeys :
          LET res == cacheAdd(kcache, key)
          IN  /\ kcache' = res.c
              /\ kpc' = IF res.panic THEN "panic" ELSE "ready"
              /\ klog' = Append(klog, [key |-> key, before |-> kcache, after |-> res.c,
                                       added |-> res.added, err |-> res.err,
                                       panic |-> res.panic])
    /\ UNCHANGED notCacheVars

NextCache == CallAdd

-----------------------------------------------------------------------------
(* client.go: burstReportSender over time, with its timers                 *)

\* The durations given to newBurstReportSender: none, and two ticks.
BurstDurations == {0, 2}

\* `return err` with the error of rand.Int dropped.
sendResult_nil(rnd) == "nil"

\* What Send returns after a draw rnd: the error of rand.Int (-1), or nil.
sendResult(rnd) == IF rnd = -1 THEN "rand error" ELSE "nil"

\* time.AfterFunc with no delay.
afterFunc_now(now, d) == now

\* time.AfterFunc(d, f) called at `now`: the earliest time f runs.
afterFunc(now, d) == now + d

TimedInit ==
    /\ lnow = 0
    /\ lburst \in BurstDurations
    /\ lcount = 0
    /\ lpending = 0
    /\ ltimers = {}
    /\ ldrains = {}
    /\ llog = <<>>
    /\ ldown = <<>>

TimedRest == TimedInit /\ lburst = 0

\* burstReportSender.Send of the next report, numbered by its arrival, the
\* whole body under l.mu. rnd is the outcome of rand.Int(rand.Reader,
\* count): -1 for an error, else the index drawn.
TimedSend ==
    /\ Len(llog) < MaxSends
    /\ lcount' = lcount + 1
    /\ \E rnd \in -1..lcount :
          /\ llog' = Append(llog, [at |-> lnow, rnd |-> rnd, count |-> lcount',
                                   ret |-> sendResult(rnd)])
          /\ IF rnd = -1
             THEN UNCHANGED <<lpending, ltimers>>
             ELSE /\ lpending' = reservoir(lpending, rnd, Len(llog) + 1)
                  /\ ltimers' = IF scheduleDrain(lcount')
                                THEN ltimers \cup {[at |-> afterFunc(lnow, lburst),
                                                    by |-> Len(llog) + 1]}
                                ELSE ltimers
    /\ UNCHANGED <<lnow, lburst, ldrains, ldown, notTimedVars>>

\* A timer that is due starts drain, which captures pending and resets
\* count under l.mu.
TimedDrain ==
    /\ \E tm \in ltimers :
          /\ tm.at <= lnow
          /\ ltimers' = ltimers \ {tm}
          /\ ldrains' = ldrains \cup {[r |-> lpending, by |-> tm.by]}
    /\ lcount' = 0
    /\ UNCHANGED <<lnow, lburst, lpending, llog, ldown, notTimedVars>>

\* The rest of a drain: l.sender.Send(r), whose error is only logged.
TimedDeliver ==
    /\ \E d \in ldrains, err \in {"nil", "error"} :
          /\ ldrains' = ldrains \ {d}
          /\ ldown' = Append(ldown, [r |-> d.r, by |-> d.by, at |-> lnow, err |-> err])
    /\ UNCHANGED <<lnow, lburst, lcount, lpending, ltimers, llog, notTimedVars>>

\* Time passes: up to MaxTime, and on until every scheduled timer is due.
Advance ==
    /\ lnow < MaxTime \/ \E tm \in ltimers : tm.at > lnow
    /\ lnow' = lnow + 1
    /\ UNCHANGED <<lburst, lcount, lpending, ltimers, ldrains, llog, ldown, notTimedVars>>

NextTimed == TimedSend \/ TimedDrain \/ TimedDeliver \/ Advance

-----------------------------------------------------------------------------
(* server.go: a Receiver given names from the network                      *)

\* The labels of a full name for two values, as in TestMismatchSuffix:
\* value1.value2.bin.country.date.domain.name
ParseLabels ==
    << <<"v">>, <<"w">>, <<"b">>, <<"z", "z">>,
       <<"2", "0", "2", "0", "0", "2", "0", "2">>, <<"d">>, <<"e">> >>

\* What follows the labels on the wire: the suffix, the suffix in upper
\* case with the root dot, another zone, a non-ASCII zone, nothing, and
\* the suffix's characters run on to the last label without a dot.
ParseTails ==
    {<<".", "m", ".", "x">>, <<".", "M", ".", "X", ".">>, <<".", "w", ".", "x">>,
     <<".", "<U+00E9>", ".", "x">>, <<".">>, <<>>, <<"m", ".", "x">>}

\* The names: the full list of labels with some leading labels dropped,
\* plain or behind a non-ASCII label, and a tail.
ParseNames ==
    {pre \o Join(SubSeq(ParseLabels, i, Len(ParseLabels))) \o tail :
        pre \in {<<>>, <<"<U+2318>", ".">>}, i \in 1..(Len(ParseLabels) + 1),
        tail \in ParseTails}

\* The Receivers: as TestMismatchSuffix and TestShortName configure them.
ParseReceivers == [Suffix : {<<"m", ".", "x">>, <<"M", ".", "x", ".">>, <<>>}, Values : 0..3]

ParseInit ==
    /\ ppc = "input"
    /\ preceiver \in ParseReceivers
    /\ pname \in ParseNames
    /\ pparsed = [err |-> "none", report |-> NoReport]

\* The parse part before any use, for the specifications of the other parts.
ParseRest ==
    /\ ppc = "input"
    /\ preceiver = [Suffix |-> <<>>, Values |-> 0]
    /\ pname = <<>>
    /\ pparsed = [err |-> "none", report |-> NoReport]

\* r.ParseReport(name)
CallParseReport ==
    /\ ppc = "input"
    /\ pparsed' = ParseReport(preceiver, pname)
    /\ ppc' = "parsed"
    /\ UNCHANGED <<preceiver, pname, notParseVars>>

NextParse == CallParseReport

-----------------------------------------------------------------------------
(* client.go: reportBuilder.build on the domains callers may pass          *)

\* The strings of up to n characters over the set chars.
RECURSIVE StringsUpTo(_, _)
StringsUpTo(chars, n) ==
    IF n = 0 THEN {<<>>}
    ELSE LET shorter == StringsUpTo(chars, n - 1)
         IN  shorter \cup {Append(str, c) : str \in shorter, c \in chars}

\* The domains given to build: every string of up to MaxDomainLen
\* characters over a letter in both cases, an accented capital and the dot,
\* and a name that dnsmessage.NewName refuses.
BuildDomains ==
    StringsUpTo({"a", "A", "<U+00C9>", "."}, MaxDomainLen)
    \cup {[i \in 1..(nameLen + 1) |-> "a"]}

BuildInit ==
    /\ gpc = "input"
    /\ gargs \in [domain : BuildDomains, values : {<<1>>, <<1, 2>>}]
    /\ gday = 0
    /\ gresult = [err |-> "none", report |-> ZeroReport]

\* The build part before any use, for the specifications of the other parts.
BuildRest ==
    /\ gpc = "input"
    /\ gargs = [domain |-> <<>>, values |-> <<>>]
    /\ gday = 0
    /\ gresult = [err |-> "none", report |-> ZeroReport]

\* b.build(domain, values) on the current day.
CallBuild ==
    /\ gpc = "input"
    /\ gresult' = build(gargs.domain, gargs.values)
    /\ gday' = clock
    /\ gpc' = "built"
    /\ UNCHANGED <<gargs, notBuildVars>>

NextBuild == CallBuild \/ Tick

-----------------------------------------------------------------------------
(* client.go: newReportBuilder and NewReporter                             *)

maxValues == 255

\* newReportBuilder: the error, the stream afterwards, whether file.Read
\* was called (newHashBinner calls it once it has accepted bins), and the
\* builder's fields.
newReportBuilder(file, bins, values, country, env) ==
    IF values < 0 \/ values > maxValues
    THEN [err |-> "Unreasonable number of values", file |-> file, read |-> FALSE,
          values |-> 0, country |-> <<>>, salt |-> <<>>]
    ELSE IF len(country) # 2
    THEN [err |-> "Country code should be two characters", file |-> file, read |-> FALSE,
          values |-> 0, country |-> <<>>, salt |-> <<>>]
    ELSE LET res == newHashBinner(file, bins, env)
         IN  IF res.err # "nil"
             THEN [err |-> res.err, file |-> res.file, read |-> bins > 0,
                   values |-> 0, country |-> <<>>, salt |-> <<>>]
             ELSE [err |-> "nil", file |-> res.file, read |-> TRUE,
                   values |-> values, country |-> ToLower(country), salt |-> res.salt]

\* NewReporter: the builder's error is its own; the two senders it then
\* makes touch nothing.
NewReporter(file, bins, values, country, env) ==
    newReportBuilder(file, bins, values, country, env)

\* The configurations: bins and values around their limits, and countries
\* of zero to three characters, with a dot, and with letters of two bytes.
ConfigBins == {-1, 0, 1, 32}
ConfigValues == {-1, 0, 2, maxValues, maxValues + 1}
ConfigCountries ==
    {<<>>, <<"z">>, <<"z", "z">>, <<"Z", "Z">>, <<"z", "z", "z">>, <<"a", ".">>,
     <<"<U+00E9>">>, <<"<U+00C9>", "<U+00E9>">>}

\* The stream: empty, or holding a salt.
ConfigFiles == {<<>>, [i \in 1..saltsize |-> i % 3]}

ConfigInit ==
    /\ opc = "input"
    /\ oargs \in [file : ConfigFiles, bins : ConfigBins, values : ConfigValues,
                   country : ConfigCountries, env : SaltEnvs]
    /\ ofile = oargs.file
    /\ oresult = [err |-> "none", file |-> ofile, read |-> FALSE,
                  values |-> 0, country |-> <<>>, salt |-> <<>>]

\* The configuration part before any use, for the specifications of the
\* other parts.
ConfigRest ==
    /\ opc = "input"
    /\ oargs = [file |-> <<>>, bins |-> 32, values |-> 2, country |-> <<"z", "z">>,
                env |-> [readErr |-> FALSE, randErr |-> FALSE, fill |-> 1, written |-> -1]]
    /\ ofile = <<>>
    /\ oresult = [err |-> "none", file |-> <<>>, read |-> FALSE,
                  values |-> 0, country |-> <<>>, salt |-> <<>>]

CallNewReporter ==
    /\ opc = "input"
    /\ oresult' = NewReporter(ofile, oargs.bins, oargs.values, oargs.country, oargs.env)
    /\ ofile' = oresult'.file
    /\ opc' = "done"
    /\ UNCHANGED <<oargs, notConfigVars>>

NextConfig == CallNewReporter

-----------------------------------------------------------------------------
(* Specifications                                                          *)

\* The Filter goroutine with its producer and consumer.
InitFilter == FilterInit /\ ClientRest /\ NameRest /\ SaltRest /\ BinRest /\ ValueRest /\ ReservoirInit /\ CacheRest /\ TimedRest /\ ParseRest /\ BuildRest /\ ConfigRest
SpecFilter == InitFilter /\ [][NextFilter]_vars

\* The same with a consumer that keeps receiving from `out` and a goroutine
\* that is scheduled when it can end its loop.
SpecFilterLive == SpecFilter /\ WF_vars(FilterEmit) /\ WF_vars(FilterClose)

\* The rest of Filter's state before any use.
FilterRest == FilterInit /\ threshold = 1

\* The client pipeline with concurrent callers, timers and the embedder's sender.
Init == ClientInit /\ FilterRest /\ NameRest /\ SaltRest /\ BinRest /\ ValueRest /\ ReservoirInit /\ CacheRest /\ TimedRest /\ ParseRest /\ BuildRest /\ ConfigRest
Spec == Init /\ [][NextClient]_vars

\* A new reporter given up to MaxDayCalls valid reports of two domains
\* within one day.
InitDay == ClientRest /\ FilterRest /\ NameRest /\ SaltRest /\ BinRest /\ ValueRest /\ ReservoirInit /\ CacheRest /\ TimedRest /\ ParseRest /\ BuildRest /\ ConfigRest
SpecDay == InitDay /\ [][NextDay]_vars

\* name() followed by ParseReport, over the reports the builder makes.
InitName == NameInit /\ FilterRest /\ ClientRest /\ SaltRest /\ BinRest /\ ValueRest /\ ReservoirInit /\ CacheRest /\ TimedRest /\ ParseRest /\ BuildRest /\ ConfigRest
SpecName == InitName /\ [][NextName]_vars

\* Successive constructions of the binner over one salt store.
InitSalt == SaltInit /\ FilterRest /\ ClientRest /\ NameRest /\ BinRest /\ ValueRest /\ ReservoirInit /\ CacheRest /\ TimedRest /\ ParseRest /\ BuildRest /\ ConfigRest
SpecSalt == InitSalt /\ [][NextSalt]_vars

\* Calls of build on two builders, each with its binner.
InitBin == BinInit /\ FilterRest /\ ClientRest /\ NameRest /\ SaltRest /\ ValueRest /\ ReservoirInit /\ CacheRest /\ TimedRest /\ ParseRest /\ BuildRest /\ ConfigRest
SpecBin == InitBin /\ [][NextBin]_vars

\* NewValue on each input string.
InitValue == ValueInit /\ FilterRest /\ ClientRest /\ NameRest /\ SaltRest /\ BinRest /\ ReservoirInit /\ CacheRest /\ TimedRest /\ ParseRest /\ BuildRest /\ ConfigRest
SpecValue == InitValue /\ [][NextValue]_vars

\* One burst of the burst sender, with every outcome of its random draws.
InitReservoir ==
    ReservoirInit /\ FilterRest /\ ClientRest /\ NameRest /\ SaltRest /\ BinRest /\ ValueRest /\ CacheRest /\ TimedRest /\ ParseRest /\ BuildRest /\ ConfigRest
SpecReservoir == InitReservoir /\ [][NextReservoir]_vars

\* Calls of Add on one zero-value cache.
InitCache ==
    CacheInit /\ FilterRest /\ ClientRest /\ NameRest /\ SaltRest /\ BinRest /\ ValueRest /\ ReservoirInit /\ TimedRest /\ ParseRest /\ BuildRest /\ ConfigRest
SpecCache == InitCache /\ [][NextCache]_vars

\* The burst sender with callers, time and its timers.
InitTimed ==
    TimedInit /\ FilterRest /\ ClientRest /\ NameRest /\ SaltRest /\ BinRest /\ ValueRest /\ ReservoirInit /\ CacheRest /\ ParseRest /\ BuildRest /\ ConfigRest
SpecTimed == InitTimed /\ [][NextTimed]_vars

\* A Receiver parsing one name.
InitParse ==
    ParseInit /\ FilterRest /\ ClientRest /\ NameRest /\ SaltRest /\ BinRest /\ ValueRest /\ ReservoirInit /\ CacheRest /\ TimedRest /\ BuildRest /\ ConfigRest
SpecParse == InitParse /\ [][NextParse]_vars

\* The same where time passes, due timers fire and started drains go on.
SpecTimedLive ==
    SpecTimed /\ WF_vars(Advance) /\ WF_vars(TimedDrain) /\ WF_vars(TimedDeliver)


\* build on one domain, on any day.
InitBuild ==
    BuildInit /\ FilterRest /\ ClientRest /\ NameRest /\ SaltRest /\ BinRest /\ ValueRest /\ ReservoirInit /\ CacheRest /\ TimedRest /\ ParseRest /\ ConfigRest
SpecBuild == InitBuild /\ [][NextBuild]_vars


\* NewReporter on one configuration and one stream.
InitConfig ==
    ConfigInit /\ FilterRest /\ ClientRest /\ NameRest /\ SaltRest /\ BinRest /\ ValueRest /\ ReservoirInit /\ CacheRest /\ TimedRest /\ ParseRest /\ BuildRest
SpecConfig == InitConfig /\ [][NextConfig]_vars

-----------------------------------------------------------------------------
(* Properties of Filter                                                    *)

\* The distinct bins among the reports for key k consumed so far.
BinsSeen(k) ==
    {consumed[j].bin : j \in {i \in 1..Len(consumed) : consumed[i].Key = k}} \ {""}

\* Whether the consumed reports for k cover at least `threshold` bins.
HasBurst(k) == Cardinality(BinsSeen(k)) >= threshold

\* How many entries of seq are the report consumed as r (same Key and Values).
CountOf(seq, r) ==
    Cardinality({i \in 1..Len(seq) : seq[i].Key = r.Key /\ seq[i].Values = r.Values})

\* C1 (Filter safety): a report with key K is handed to the output, or is
\* received from it, only if the reports consumed so far hold K in at least
\* `threshold` distinct bins; a stream in which no key reaches the threshold
\* produces no output.
FilterSafety ==
    /\ \A i \in 1..Len(emitted) : HasBurst(emitted[i].Key)
    /\ \A i \in 1..Len(released) : HasBurst(released[i].Key)

\* C1 witness: with threshold 2 one key has burst and was emitted while
\* another key has been consumed in a single bin and stays hidden.
FilterSafetyWitness ==
    /\ threshold = 2
    /\ Len(emitted) >= 2
    /\ \E k \in FilterKeys :
          /\ Cardinality(BinsSeen(k)) = 1
          /\ \A i \in 1..Len(emitted) : emitted[i].Key # k

\* C2 (Filter release): every report consumed for a key whose bins reached
\* the threshold, whether consumed before the burst, as its trigger, or
\* after it, is on the output exactly once: received by the consumer, or
\* still waiting in the goroutine's send loop for the consumer to receive
\* it; when the goroutine is back at its receive (or has closed the output)
\* all of them have been received.
FilterRelease ==
    /\ \A j \in 1..Len(consumed) :
          HasBurst(consumed[j].Key) =>
             CountOf(emitted, consumed[j]) + CountOf(released, consumed[j]) = 1
    /\ fpc \in {"recv", "closed"} => released = <<>>

\* C2 witness: threshold 2, two reports in bin "a", the trigger in bin "b"
\* and a later report, all for one key, and all four received.
FilterReleaseWitness ==
    /\ threshold = 2
    /\ fpc = "recv"
    /\ Len(consumed) = 4
    /\ \A j \in 1..4 : consumed[j].Key = "k1"
    /\ consumed[1].bin = "a" /\ consumed[2].bin = "a" /\ consumed[3].bin = "b"
    /\ Len(emitted) = 4

\* C16 (as claimed): a report with an empty bin received by Filter makes
\* the goroutine panic, whatever the state of the dam of its key. One that
\* arrives for a key that has already burst is forwarded instead, so this
\* is violated.
EmptyBinPanics ==
    \A i \in 1..Len(consumed) : consumed[i].bin = "" => fpc = "panic"

\* C17: once `in` is closed, with a consumer that keeps receiving, `out`
\* is eventually closed; it is closed only after the close of `in` and
\* after every report released has been received; and the reports
\* received are one for each report consumed for a key that burst, and
\* none for the reports left in a dam that has not burst.
FilterTermination ==
    /\ inClosed ~> (fpc = "closed")
    /\ [](fpc = "closed" =>
            /\ inClosed
            /\ released = <<>>
            /\ \A j \in 1..Len(consumed) :
                  CountOf(emitted, consumed[j]) =
                      IF HasBurst(consumed[j].Key) THEN 1 ELSE 0)

\* `out` was closed after the reports of a key that burst were received,
\* while the dam of the other key still held a report.
FilterTerminationWitness ==
    /\ fpc = "closed"
    /\ Len(emitted) >= 2
    /\ \E k \in FilterKeys :
          pending[k].st = "dam" /\ Len(pending[k].observations) >= 1

\* The Values of the reports of seq that have key k, in order.
RECURSIVE ValuesOf(_, _)
ValuesOf(seq, k) ==
    IF seq = <<>> THEN <<>>
    ELSE IF Head(seq).Key = k THEN <<Head(seq).Values>> \o ValuesOf(Tail(seq), k)
    ELSE ValuesOf(Tail(seq), k)

\* C18: for a key that has burst, the Values received from `out`, followed
\* by those the goroutine is still to send, are the Values received from
\* `in` for that key, in the order of their arrival.
FilterOrdering ==
    \A k \in FilterKeys :
        HasBurst(k) => ValuesOf(emitted \o released, k) = ValuesOf(consumed, k)

\* Threshold 2: a report of k1 was held back, one of k2 came next, a
\* second of k1 burst the dam, a third followed, and the three of k1
\* were received in the order of their arrival.
FilterOrderingWitness ==
    /\ threshold = 2
    /\ Len(consumed) = 4
    /\ consumed[2].Key = "k2"
    /\ consumed[1].bin = "a" /\ consumed[3].bin = "b"
    /\ ValuesOf(emitted, "k1") = << <<1>>, <<3>>, <<4>> >>

\* C3 (as claimed): every report received from Filter's output has an empty
\* bin. The reports forwarded for a key that has already burst keep the bin
\* they arrived with, so this is violated.
FilterOutputHasNoBin ==
    \A i \in 1..Len(emitted) : emitted[i].bin = ""

-----------------------------------------------------------------------------
(* Properties of the client pipeline                                       *)

\* The reports onceADayReportSender.Send has passed to its inner sender:
\* those the inner Send has taken and those whose call is being made.
Forwarded ==
    {burstLog[i].r : i \in 1..Len(burstLog)} \cup {creport[t] : t \in {u \in Threads : cpc[u] = "burst"}}

Drained ==
    {[r |-> d.r, burst |-> d.burst] : d \in inflight}
    \cup {[r |-> d.r, burst |-> d.burst] : d \in sent}

\* The number of drains that captured a report of burst b.
DrainsOf(b) ==
    Cardinality({d \in inflight : d.burst = b})
    + Cardinality({d \in sent : d.burst = b})

\* C5 (burst suppression): a burst that a drain has ended (count is back at
\* 0, or a later burst has begun) has had the downstream sender invoked
\* exactly once, a burst still open not at all, and the report handed
\* downstream was passed to Send during that same burst.
BurstSuppression ==
    /\ \A b \in 1..burstNo :
          DrainsOf(b) = IF b < burstNo \/ count = 0 THEN 1 ELSE 0
    /\ \A e \in Drained :
          \E i \in 1..Len(burstLog) : burstLog[i].burst = e.burst /\ burstLog[i].r = e.r

\* C5 witness: a burst of two reports has been drained and the second
\* report, which replaced the first as pending, was the one sent.
BurstSuppressionWitness ==
    /\ Len(burstLog) = 2
    /\ burstLog[1].burst = 1 /\ burstLog[2].burst = 1
    /\ sent # {} /\ \A d \in sent : d.r = burstLog[2].r
    /\ inflight = {}
    /\ count = 0

\* C6 (errors are not surfaced): the step in which the embedder's Send
\* returns, with an error or without, changes no caller's result or
\* position and nothing of the suppressor or the cache; and when a drain
\* goes into the embedder's Send it has already reset count to 0.
ErrorsNotSurfaced ==
    /\ [][(sent' # sent) =>
            /\ cresult' = cresult /\ cpc' = cpc
            /\ count' = count /\ bpending' = bpending /\ timers' = timers
            /\ cache' = cache]_vars
    /\ [][(inflight' \ inflight # {}) => count' = 0]_vars

\* C6 witness: the embedder's Send has failed, every Report has returned
\* nil, and the suppressor is at count 0.
ErrorsNotSurfacedWitness ==
    /\ \E d \in sent : d.err = "error"
    /\ \A t \in Threads : cpc[t] = "idle" /\ cresult[t] = "nil"
    /\ count = 0 /\ inflight = {}

-----------------------------------------------------------------------------
(* Properties of name and ParseReport                                      *)

\* C7 (as claimed): a Receiver with the same suffix and the report's number
\* of values parses name(report, suffix) without error into a report with
\* the same Key, Values and bin. The builder makes reports for which this
\* fails: a domain with a non-ASCII character, a two-byte country holding
\* a dot, an empty domain under an empty suffix.
NameRoundTrip ==
    npc = "parsed" => nparsed.err = "nil" /\ nparsed.report = nreport

RECURSIVE SumLen(_)
SumLen(pieces) ==
    IF pieces = <<>> THEN 0 ELSE Len(Head(pieces)) + SumLen(Tail(pieces))

\* Where piece i starts in the dot-join of the pieces, counted from 0.
PieceOffset(pieces, i) == SumLen(SubSeq(pieces, 1, i - 1)) + (i - 1)

\* The date label stands for the date: eight digits, year, month, day.
IsDateLabel(label, date) ==
    /\ Len(label) = 8
    /\ \A i \in 1..8 : IsDigit(label[i])
    /\ Atoi(SubSeq(label, 1, 4)) = date.year
    /\ Atoi(SubSeq(label, 5, 6)) = date.month
    /\ Atoi(SubSeq(label, 7, 8)) = date.day

\* The pieces of a name, the date label being the one found in the name.
PiecesOf(nm, report, suffix) ==
    LET before == report.Values \o <<report.bin, report.Country>>
        at == SumLen(before) + Len(before)
    IN  before \o <<SubSeq(nm, at + 1, at + 8), report.Domain, suffix>>

\* C8: name(report, suffix) holds, piece after piece and each followed by
\* one dot except the last, the values in order, the bin, the country, the
\* date as YYYYMMDD, the domain and the suffix, and nothing after the
\* suffix; with no values it starts with the bin label.
NameIsDotJoin ==
    npc # "input" =>
        LET pieces == PiecesOf(nname, nreport, nsuffix)
            n == Len(pieces)
            k == Len(nreport.Values)
        IN  /\ n = k + 5
            /\ Len(nname) = SumLen(pieces) + (n - 1)
            /\ \A i \in 1..n :
                  SubSeq(nname, PieceOffset(pieces, i) + 1,
                         PieceOffset(pieces, i) + Len(pieces[i])) = pieces[i]
            /\ \A i \in 1..(n - 1) :
                  nname[PieceOffset(pieces, i) + Len(pieces[i]) + 1] = "."
            /\ IsDateLabel(pieces[k + 3], nreport.Date)
            /\ k = 0 => SubSeq(nname, 1, Len(nreport.bin) + 1) = nreport.bin \o <<".">>

\* The name of the tests' report without values: it starts with the bin.
NameIsDotJoinWitness ==
    /\ npc = "named"
    /\ nreport.Values = <<>>
    /\ nreport.Domain = <<"w", ".", "a">>
    /\ nsuffix = <<"m", ".", "x">>
    /\ nname = <<"q", ".", "z", "z", ".", "1", "4", "1", "3", "1", "2", "1", "1", ".",
                 "w", ".", "a", ".", "m", ".", "x">>

-----------------------------------------------------------------------------
(* Properties of newHashBinner                                             *)

\* The last construction.
LastCall == slog[Len(slog)]

\* C9: a construction that finds n < 16 bytes in the store and returns a
\* binner has written exactly 16 - n bytes after them: the store then holds
\* exactly 16 bytes, the first n are the original ones, and the binner's
\* salt is those 16 bytes.
SaltPopulation ==
    (slog # <<>> /\ LastCall.err = "nil" /\ Len(sbefore) < saltsize) =>
        /\ LastCall.n = Len(sbefore)
        /\ LastCall.wrote = saltsize - Len(sbefore)
        /\ Len(sfile) = saltsize
        /\ SubSeq(sfile, 1, Len(sbefore)) = sbefore
        /\ LastCall.salt = sfile

\* A store of 5 bytes was completed to 16 by the first construction.
SaltPopulationWitness ==
    /\ Len(slog) = 1
    /\ LastCall.err = "nil"
    /\ Len(sbefore) = 5
    /\ LastCall.wrote = 11
    /\ Len(sfile) = 16

\* The salts of the constructions that returned a binner.
SaltsUsed == {slog[i].salt : i \in {j \in 1..Len(slog) : slog[j].err = "nil"}}

\* C10: a construction changes the store only if it found fewer than 16
\* bytes in it; one that finds 16 bytes or more leaves the store as it is
\* and, when it returns a binner, uses the first 16 bytes as the salt; all
\* the constructions that return a binner over one store use the same salt.
SaltStability ==
    /\ slog # <<>> =>
        /\ (sfile # sbefore \/ LastCall.wrote > 0) =>
              (Len(sbefore) < saltsize /\ LastCall.n < saltsize)
        /\ Len(sbefore) >= saltsize =>
              /\ sfile = sbefore
              /\ LastCall.err = "nil" => LastCall.salt = SubSeq(sbefore, 1, saltsize)
    /\ Cardinality(SaltsUsed) <= 1

\* The first construction populated an empty store, the second one found
\* the 16 bytes, wrote nothing and has the same salt.
SaltStabilityWitness ==
    /\ Len(slog) = 2
    /\ slog[1].err = "nil" /\ slog[1].n = 0 /\ slog[1].wrote = 16
    /\ slog[2].err = "nil" /\ slog[2].n = 16 /\ slog[2].wrote = 0
    /\ slog[2].salt = slog[1].salt
    /\ sfile = sbefore

-----------------------------------------------------------------------------
(* Properties of hashBinner.bin                                            *)

BinLabelLength ==
    /\ \A x \in blog :
          LET n == bbinners[x.binner].bins
          IN  /\ Len(x.label) = base32size(n - 1)
              /\ (1 <= n /\ n <= 32) => Len(x.label) = 1
              /\ (33 <= n /\ n <= 1024) => Len(x.label) = 2
    /\ \A i \in 1..2, code \in {[j \in 1..8 |-> 0], [j \in 1..8 |-> 255]} :
          LET n == bbinners[i].bins
          IN  Len(binOfCode(code, n)) = IF n <= 32 THEN 1 ELSE 2

\* Labels of length 1 and of length 2 were made, for 1 bin and for 1024.
BinLabelLengthWitness ==
    /\ bbinners[1].bins = 1
    /\ bbinners[2].bins = 1024
    /\ \E x \in blog, y \in blog :
          /\ x.binner = 1 /\ Len(x.label) = 1
          /\ y.binner = 2 /\ Len(y.label) = 2

-----------------------------------------------------------------------------
(* Properties of NewValue                                                  *)

\* The four predicates of a correctly formatted Value.
HasNoDot(str) == \A i \in 1..Len(str) : str[i] # "."
HasNoUpper(str) == \A i \in 1..Len(str), j \in 1..Len(Uppers) : str[i] # Uppers[j]
IsShort(str) == len(str) <= 63
IsBasicASCII(str) == \A i \in 1..Len(str) : str[i] \notin NonASCII

\* C13: NewValue(s) returns no error exactly when s has no '.', no
\* upper-case letter, at most 63 bytes and only code points below 128; the
\* Value it then returns has String() = s, and so meets the four
\* predicates.
ValueValidation ==
    vpc = "done" =>
        /\ verr = "nil" <=> (/\ HasNoDot(vinput) /\ HasNoUpper(vinput)
                             /\ IsShort(vinput) /\ IsBasicASCII(vinput))
        /\ verr = "nil" =>
              /\ String(vvalue) = vinput
              /\ HasNoDot(String(vvalue)) /\ HasNoUpper(String(vvalue))
              /\ IsShort(String(vvalue)) /\ IsBasicASCII(String(vvalue))

\* NewValue accepted a string of exactly 63 bytes.
ValueValidationWitness ==
    /\ vpc = "done"
    /\ verr = "nil"
    /\ Len(vinput) = 63
    /\ String(vvalue) = vinput

-----------------------------------------------------------------------------
(* Properties of the reservoir of burstReportSender                        *)

RECURSIVE Factorial(_)
Factorial(n) == IF n = 0 THEN 1 ELSE n * Factorial(n - 1)

\* The number of sequences of n draws without error, the i-th from
\* 0..i-1, after which report j is pending (j = 0: Report{}). Every such
\* sequence has the probability 1/n!, the i-th draw being uniform over i
\* values.
RECURSIVE Ways(_, _)
RECURSIVE WaysFrom(_, _, _)
Ways(n, j) ==
    IF n = 0 THEN (IF j = 0 THEN 1 ELSE 0) ELSE WaysFrom(n, j, n - 1)

\* The part of Ways(n, j) in which one of the reports 0..p was pending
\* before the n-th Send.
WaysFrom(n, j, p) ==
    IF p < 0 THEN 0
    ELSE Ways(n - 1, p) * Cardinality({rnd \in 0..(n - 1) : reservoir(p, rnd, n) = j})
         + WaysFrom(n, j, p - 1)

NoRandError == \A i \in 1..Len(rdraws) : rdraws[i] # -1

\* C14: after n reports were passed to Send in one burst, rand.Int having
\* worked each time, every one of the n reports is the pending one with
\* probability 1/n (in n!/n of the n! equally likely sequences of draws),
\* the pending report is one of them, and it is the one drain hands to
\* the downstream sender.
ReservoirFairness ==
    (Len(rdraws) >= 1 /\ NoRandError) =>
        LET n == Len(rdraws)
        IN  /\ \A j \in 1..n : Ways(n, j) * n = Factorial(n)
            /\ Ways(n, 0) = 0
            /\ rpending \in 1..n
            /\ rtimer \/ rpc # "burst"
            /\ rpc # "burst" => rsent.r = rpending

\* Of three reports the second was kept and handed to the sender.
ReservoirFairnessWitness ==
    /\ rpc = "sent"
    /\ rdraws = <<0, 0, 1>>
    /\ rsent.r = 2

-----------------------------------------------------------------------------
(* Properties of the once-a-day cache                                      *)

\* C15: the cache never remembers more than maxReports domains.
CacheBound == Cardinality(cache.cache) <= maxReports

\* The cache holds maxReports domains and an Add was refused for that.
CacheBoundWitness ==
    /\ Cardinality(cache.cache) = maxReports
    /\ \E t \in Threads : cadd[t] = "Cache is full"

\* Thread t goes through cache.Add in this step.
AddStep(t) == cpc[t] = "onceADay" /\ cpc'[t] # "onceADay"

\* The outcomes of Add on which Send stops.
Refusals == {"Old date", "Cache is full", "duplicate"}

\* C19: a Send whose Add reports an old date, a full cache or a duplicate
\* returns nil without a call of the inner sender; a Send whose Add
\* returned (true, nil) goes on to the inner sender, calls it once and
\* returns what it returned; the inner sender is called by nobody else.
OnceADayForwarding ==
    [][/\ \A t \in Threads :
            /\ AddStep(t) =>
                  /\ cadd'[t] \in Refusals <=> cpc'[t] = "idle"
                  /\ cadd'[t] \in Refusals => cresult'[t] = "nil"
                  /\ cadd'[t] = "added" <=> cpc'[t] = "burst"
                  /\ burstLog' = burstLog
            /\ (cpc[t] = "burst" /\ cpc'[t] # "burst") =>
                  /\ cadd[t] = "added"
                  /\ Len(burstLog') = Len(burstLog) + 1
                  /\ burstLog'[Len(burstLog')].r = creport[t]
                  /\ cpc'[t] = "idle"
                  /\ cresult'[t] \in {"nil", "rand error"}
       /\ burstLog' # burstLog => \E t \in Threads : cpc[t] = "burst" /\ cpc'[t] = "idle"
      ]_vars

\* One Send was stopped for an old date and returned nil, another passed
\* its report to the inner sender and returned the inner sender's error.
OnceADayForwardingWitness ==
    /\ Len(burstLog) = 1
    /\ \E t, u \in Threads :
          /\ cpc[t] = "idle" /\ cadd[t] = "Old date" /\ cresult[t] = "nil"
          /\ cpc[u] = "idle" /\ cadd[u] = "added" /\ cresult[u] = "rand error"

\* C20: with maxReports domains remembered for the date of the key, Add of
\* a domain that is not among them returns (false, error) and Add of one
\* that is returns (false, nil), and neither changes the cache.
FullCacheAdd ==
    [][\A t \in Threads :
          (/\ AddStep(t)
           /\ Cardinality(cache.cache) = maxReports
           /\ creport[t].Date = cache.date) =>
              /\ cache' = cache
              /\ cadd'[t] = IF creport[t].Domain \in cache.cache
                            THEN "duplicate" ELSE "Cache is full"
      ]_vars

\* A domain already remembered was added again to the full cache, without
\* an error.
FullCacheAddWitness ==
    /\ Cardinality(cache.cache) = maxReports
    /\ \E t, u \in Threads :
          /\ cadd[u] = "added"
          /\ cadd[t] = "duplicate" /\ cresult[t] = "nil" /\ cpc[t] = "idle"


\* C21: date rollover. An Add whose key is dated strictly after the stored
\* date returns (true, nil) and leaves the cache with that date and with
\* exactly the key's domain, whatever it held before, and the report goes
\* on to the inner sender.
DateRollover ==
    [][\A t \in Threads :
          (AddStep(t) /\ creport[t].Date > cache.date)
          => /\ cadd'[t] = "added"
             /\ cache'.date = creport[t].Date
             /\ cache'.cache = {creport[t].Domain}
             /\ cpc'[t] = "burst"]_vars

\* The same domain has been forwarded on day 1 and again on day 2, and the
\* cache holds only it.
DateRolloverWitness ==
    /\ cache = [date |-> 2, cache |-> {<<"a">>}, isNil |-> FALSE]
    /\ \E i, j \in 1..Len(burstLog) :
          /\ burstLog[i].r.Domain = <<"a">> /\ burstLog[i].r.Date = 1
          /\ burstLog[j].r.Domain = <<"a">> /\ burstLog[j].r.Date = 2

\* C22: old-date rejection. An Add whose key is dated strictly before the
\* stored date returns (false, error) and leaves the date and the domain
\* set as they were; over any sequence of Adds the stored date never
\* decreases.
OldDateRejection ==
    \A i \in 1..Len(klog) :
       /\ klog[i].key.Date < klog[i].before.date
          => /\ ~klog[i].added
             /\ klog[i].err = "Old date"
             /\ klog[i].after = klog[i].before
       /\ klog[i].after.date >= klog[i].before.date
       /\ i > 1 => klog[i].before = klog[i - 1].after

\* A key of day 1 was refused after the cache had gone on to day 2 with a
\* domain in it.
OldDateRejectionWitness ==
    \E i \in 1..Len(klog) :
       /\ klog[i].key.Date = 1
       /\ klog[i].before = [date |-> 2, cache |-> {<<"a">>}, isNil |-> FALSE]
       /\ klog[i].err = "Old date"
       /\ kcache = klog[i].before

\* C23: on the zero-value cache the first Add of a key dated at or after
\* the cache's initial date returns (true, nil), and the same key added
\* again at once returns (false, nil).
ZeroCacheFirstAdd ==
    (Len(klog) >= 1 /\ klog[1].key.Date >= ZeroCache.date)
    => /\ klog[1].added /\ klog[1].err = "nil" /\ ~klog[1].panic
       /\ (Len(klog) >= 2 /\ klog[2].key = klog[1].key)
          => (~klog[2].added /\ klog[2].err = "nil" /\ ~klog[2].panic)

-----------------------------------------------------------------------------
(* Properties of burstReportSender over time                               *)

\* C24: Send never calls the downstream sender. Every downstream call is
\* made by a drain that the Send moving count from 0 to 1 scheduled, it
\* comes no earlier than the burst duration after that Send, and it
\* carries a report of the burst that Send began; each such Send
\* schedules at most one drain.
DownstreamOf(d) ==
    /\ d.by \in 1..Len(llog)
    /\ llog[d.by].count = 1
    /\ lnow >= llog[d.by].at + lburst
    /\ d.r \in d.by..Len(llog)

DrainAfterBurst ==
    /\ [](/\ \A i \in 1..Len(ldown) :
               DownstreamOf(ldown[i]) /\ ldown[i].at >= llog[ldown[i].by].at + lburst
          /\ \A d \in ldrains : DownstreamOf(d)
          /\ \A i, j \in 1..Len(ldown) : ldown[i].by = ldown[j].by => i = j
          /\ \A i \in 1..Len(ldown), d \in ldrains : ldown[i].by # d.by)
    /\ [][Len(llog') > Len(llog) => (ldown' = ldown /\ ldrains' = ldrains)]_vars

\* With a burst of two ticks, a report sent at time 1 has gone downstream
\* at time 3, after a second report joined its burst.
DrainAfterBurstWitness ==
    /\ lburst = 2
    /\ Len(llog) >= 2
    /\ llog[1].at = 1
    /\ llog[2].count = 2
    /\ Len(ldown) = 1
    /\ ldown[1].by = 1
    /\ ldown[1].at = 3

\* C25 as amended: Send returns nil exactly when the draw of the random
\* index succeeds, whatever the report and the state, and returns the
\* error of rand.Int when the draw fails.
SendResult ==
    \A i \in 1..Len(llog) :
       /\ llog[i].rnd # -1 => llog[i].ret = "nil"
       /\ llog[i].rnd = -1 => llog[i].ret = "rand error"

\* One Send whose draw failed and one whose draw succeeded have returned.
SendResultWitness ==
    \E i, j \in 1..Len(llog) :
       /\ llog[i].rnd = -1 /\ llog[i].ret = "rand error"
       /\ llog[j].rnd # -1 /\ llog[j].ret = "nil"

\* C25 as stated: every Send returns nil, also when the draw fails.
SendAlwaysNil == \A i \in 1..Len(llog) : llog[i].ret = "nil"

-----------------------------------------------------------------------------
(* Properties of the pipeline around a slow sender                         *)

BuildErrors == {"Wrong number of values", "NewName"}

\* C29: Report returns an error when the number of values is not the
\* configured one or the domain is rejected, and then nothing enters the
\* pipeline: the cache, the burst count, the pending report, the timers
\* and the calls of the sender are as before, and the caller holds no
\* report that a later step could send.
ReportValidation ==
    /\ [](\A n \in 1..MaxCalls : \A args \in ReportArgs(n) :
             (Len(args.values) # builderValues \/ Len(args.domain) > nameLen)
             <=> build(args.domain, args.values).err \in BuildErrors)
    /\ [][ncalls' > ncalls
          => /\ UNCHANGED <<cache, count, bpending, timers, inflight, sent, burstLog, cadd>>
             /\ \/ \E t \in Threads :
                      /\ cpc[t] = "idle" /\ cpc'[t] = "onceADay"
                      /\ cresult'[t] = "running"
                      /\ Len(creport'[t].Values) = builderValues
                      /\ Len(creport'[t].Domain) <= nameLen
                \/ \E t \in Threads :
                      /\ cresult'[t] \in BuildErrors
                      /\ cpc' = cpc /\ cpc[t] = "idle"
                      /\ creport' = creport /\ creport[t] = ZeroReport]_vars

\* Two calls of Report have failed, one for its number of values and one
\* for its domain, and the pipeline is as NewReporter left it.
ReportValidationWitness ==
    /\ ncalls = 2
    /\ {cresult[t] : t \in Threads} = BuildErrors
    /\ cache = ZeroCache
    /\ count = 0 /\ bpending = ZeroReport /\ timers = 0
    /\ inflight = {} /\ sent = {} /\ burstLog = <<>>
    /\ \A t \in Threads : cpc[t] = "idle" /\ creport[t] = ZeroReport

-----------------------------------------------------------------------------
(* Properties of ParseReport on names from the network                     *)

\* The name after normalisation, and what is left of it once the
\* normalised suffix and one dot before it are cut off.
Normalized(nm) == ToLower(TrimSuffix(nm, <<".">>))
Stripped(nm, suffix) == TrimSuffix(TrimSuffix(Normalized(nm), Normalized(suffix)), <<".">>)

\* The number of dot-separated labels of a string.
LabelCount(str) == 1 + Cardinality({i \in 1..Len(str) : str[i] = "."})

\* C30: ParseReport returns an error and no report when the name holds a
\* non-ASCII character, when the normalised name does not end with the
\* normalised Suffix, and when fewer than Values + 4 labels are left once
\* the suffix is cut off.
ParseErrors ==
    ppc = "parsed"
    => LET ascii == IsBasicASCII(pname)
           suffixed == HasSuffix(Normalized(pname), Normalized(preceiver.Suffix))
           short == LabelCount(Stripped(pname, preceiver.Suffix)) < preceiver.Values + 4
       IN  /\ ~ascii => pparsed.err = "Non-ASCII characters are unsupported"
           /\ (ascii /\ ~suffixed) => pparsed.err = "name is missing suffix"
           /\ (ascii /\ suffixed /\ short) => pparsed.err = "Name is too short"
           /\ pparsed.err # "nil" => pparsed.report = NoReport
           /\ pparsed.err # "none"

\* The name of TestMismatchSuffix for a Receiver with two values: every
\* label is there, but the name ends in another zone.
ParseErrorsWitness ==
    /\ ppc = "parsed"
    /\ preceiver = [Suffix |-> <<"m", ".", "x">>, Values |-> 2]
    /\ pname = Join(ParseLabels) \o <<".", "w", ".", "x">>
    /\ pparsed = [err |-> "name is missing suffix", report |-> NoReport]

-----------------------------------------------------------------------------
(* Properties of reportBuilder.build                                       *)

\* Whether two domains differ at most in the case of their letters and in
\* one trailing dot.
SameButCaseAndDot(d1, d2) ==
    \/ ToLower(d1) = ToLower(d2)
    \/ ToLower(d1) = ToLower(d2) \o <<".">>
    \/ ToLower(d1) \o <<".">> = ToLower(d2)

\* C31: a Report that build returns without error has a Domain in lower
\* case with no trailing dot, the configured country in lower case and of
\* two characters, and the current day as Date; domains that differ only
\* in letter case or in one trailing dot give equal Keys.
BuildKeyWellFormed ==
    (gpc = "built" /\ gresult.err = "nil")
    => /\ HasNoUpper(gresult.report.Domain)
       /\ ~HasSuffix(gresult.report.Domain, <<".">>)
       /\ gresult.report.Country = ToLower(builderCountry)
       /\ Len(gresult.report.Country) = 2
       /\ gresult.report.Date = gday
       /\ \A d \in BuildDomains :
             (SameButCaseAndDot(d, gargs.domain) /\ build(d, gargs.values).err = "nil")
             => build(d, gargs.values).report.Domain = gresult.report.Domain

-----------------------------------------------------------------------------
(* Properties of NewReporter                                               *)

\* The stream and rand.Read work.
WorkingStream(env) == ~env.readErr /\ ~env.randErr /\ env.written = -1

\* C32: NewReporter fails when bins < 1, when values is outside 0..255 or
\* when the country does not have exactly two characters, and then the
\* stream has been neither read nor written; with valid parameters and a
\* working stream it succeeds.
ConfigErrors ==
    opc = "done"
    => LET invalid == \/ oargs.bins < 1
                      \/ oargs.values \notin 0..255
                      \/ Len(oargs.country) # 2
       IN  /\ invalid => /\ oresult.err # "nil"
                         /\ ~oresult.read
                         /\ ofile = oargs.file
           /\ (~invalid /\ WorkingStream(oargs.env)) => oresult.err = "nil"

-----------------------------------------------------------------------------
(* Properties of the pipeline over a day                                   *)

\* The calls of the external sender, begun or completed.
Downstream == {[r |-> x.r, drain |-> x.drain] : x \in inflight \cup sent}

\* Whether two reports have the same domain and date.
SameDomainDay(r1, r2) == r1.Domain = r2.Domain /\ r1.Date = r2.Date

\* C33: a domain the once-a-day cache accepted on a date is blocked for
\* the rest of that date, also when the burst sender discarded its report:
\* the burst sender receives one report per domain and date, the external
\* sender is only ever given reports the burst sender received, and so it
\* sees, for each domain and date, that one report at most once or never.
BlockedForTheDay ==
    /\ \A i, j \in 1..Len(burstLog) :
          SameDomainDay(burstLog[i].r, burstLog[j].r) => i = j
    /\ \A x \in Downstream :
          \E i \in 1..Len(burstLog) : burstLog[i].r = x.r
    /\ \A x, y \in Downstream : SameDomainDay(x.r, y.r) => x = y

\* Domain "a" was accepted on day 1 and lost the draw of its burst to "b",
\* which went to the external sender; a later Report of "a" on day 1 was
\* dropped as a duplicate, and with everything drained the external sender
\* has never seen "a".
BlockedForTheDayWitness ==
    /\ clock = 1
    /\ ncalls = 3
    /\ Len(burstLog) = 2
    /\ burstLog[1].r.Domain = <<"a">> /\ burstLog[1].burst = 1
    /\ burstLog[2].r.Domain = <<"b">> /\ burstLog[2].burst = 1
    /\ \E t \in Threads : cadd[t] = "duplicate" /\ cpc[t] = "idle"
    /\ count = 0 /\ timers = 0 /\ inflight = {}
    /\ {x.r.Domain : x \in sent} = {<<"b">>}
    /\ \A t \in Threads : cpc[t] = "idle"

-----------------------------------------------------------------------------
(* Properties of the bin encoding                                          *)

\* The place of each digit in the base32 alphabet, counted from zero.
Base32Digit ==
    [c \in {base32[d] : d \in 1..32} |-> (CHOOSE d \in 1..32 : base32[d] = c) - 1]

\* The number a string of base32 digits stands for, most significant
\* digit first.
RECURSIVE Base32Value(_)
Base32Value(label) ==
    IF label = <<>> THEN 0
    ELSE Base32Value(SubSeq(label, 1, Len(label) - 1)) * 32
         + Base32Digit[label[Len(label)]]

\* The bin number of a key for a binner: the hash reduced modulo bins.
BinIndex(b, k) ==
    Uint64Mod(hmacSum(b.salt, k.Domain \o <<";">> \o k.Country \o <<";">>
                              \o FormatDate(k.Date)), 1, b.bins)

\* C34: the label bin() returns is the big-endian base-32 representation
\* of (hash mod bins) in base32size(bins - 1) digits; decoding it gives
\* that number, which lies in [0, bins), and over the whole range
\* [0, bins) of every binner the encoding loses nothing, so distinct bin
\* numbers have distinct labels.  The first part is about every number a
\* binner can be given, the second about each label a call to build adds.
BinEncodingLossless ==
    /\ [](\A i \in 1..2 :
             LET n == bbinners[i].bins
                 code(v) == [j \in 1..8 |-> IF j = 1 THEN v % 256
                                            ELSE IF j = 2 THEN v \div 256 ELSE 0]
             IN  blog = {}
                 => \A v \in 0..(n - 1) :
                       /\ Base32Value(binOfCode(code(v), n)) = v
                       /\ Base32Value(binOfCode(code(v + n), n)) = v)
    /\ [][\A x \in blog' \ blog :
              LET b == bbinners[x.binner]
                  decoded == Base32Value(x.label)
              IN  /\ Len(x.label) = base32size(b.bins - 1)
                  /\ decoded = BinIndex(b, x.key)
                  /\ decoded >= 0
                  /\ decoded < b.bins]_vars

\* A binner with 1024 bins has made a label whose high-order digit is not
\* the zero digit, and one with 33 bins a label of two digits.
BinEncodingLosslessWitness ==
    /\ bbinners[1].bins = 1024
    /\ bbinners[2].bins = 33
    /\ \E x \in blog : x.binner = 1 /\ x.label[1] # "a" /\ Base32Value(x.label) >= 32
    /\ \E y \in blog : y.binner = 2 /\ Len(y.label) = 2

-----------------------------------------------------------------------------
(* Properties of the suffix match                                          *)

\* C35: a name ParseReport accepts ends with whole labels that are the
\* configured Suffix: in the normalized name the suffix is the whole name
\* or has a dot just before it, so that no characters of a label that
\* merely ends with the suffix are left over for Domain.
SuffixAtLabelBoundary ==
    (ppc = "parsed" /\ pparsed.err = "nil")
        => LET nm == normalizeForReport(pname)
               suffix == normalizeForReport(preceiver.Suffix)
           IN  \/ suffix = <<>>
               \/ nm = suffix
               \/ /\ Len(nm) > Len(suffix)
                  /\ nm[Len(nm) - Len(suffix)] = "."

=============================================================================
